---- MODULE Spec2Model ----
(***************************************************************************)
(* Verification model of the SWM pool scraper: the API scrape cycle        *)
(* (src/src/api_scraper.py), the occupancy record (src/src/models.py) and  *)
(* the persistence layer (src/src/data_storage.py).                        *)
(*                                                                         *)
(* Strings that the program formats and parses again (the occupancy label, *)
(* CSV text) are sequences of one-character strings, so that formatting    *)
(* and parsing are computed and not assumed.                               *)
(***************************************************************************)
EXTENDS Integers, Sequences, FiniteSets, TLC

\* ------------------------------------------------------------------ bounds
NumFacilities == 3      \* entries in the registry
MaxCount == 2           \* personCount and maxPersonCount range over 0..MaxCount
MaxBatch == 2           \* records in one batch handed to save_to_csv
MaxSaves == 2           \* save_to_csv calls in sequence
MaxJsonBatch == 3       \* records in one batch handed to save_to_json
MaxJsonSaves == 2       \* save_to_json calls in sequence

\* Python's None where the value is otherwise a number (a capacity, a clock
\* value, a parsed percentage): a number no count or clock value takes
None == 0 - 1

\* Python's None where the value is otherwise a mapping
NoData == [none |-> TRUE]

\* ------------------------------------------------------- text primitives
Seq2Set(s) == {s[i] : i \in 1..Len(s)}

DigitChars == <<"0", "1", "2", "3", "4", "5", "6", "7", "8", "9">>

IsDigit(c) == c \in {DigitChars[i] : i \in 1..10}

DigitValue(c) == (CHOOSE i \in 1..10 : DigitChars[i] = c) - 1

IsSpace(c) == c \in {" ", "\t", "\n", "\r"}

RECURSIVE NatStr(_)
\* str(n) for n >= 0
NatStr(n) == IF n < 10 THEN <<DigitChars[n + 1]>>
             ELSE NatStr(n \div 10) \o <<DigitChars[(n % 10) + 1]>>

\* str(i) of a Python int, as used by an f-string
IntStr(i) == IF i < 0 THEN <<"-">> \o NatStr(0 - i) ELSE NatStr(i)

RECURSIVE DigitsValue(_)
\* float(match.group(1)) of a run of digits (the value is integral)
DigitsValue(s) == IF s = <<>> THEN 0
                  ELSE 10 * DigitsValue(SubSeq(s, 1, Len(s) - 1)) + DigitValue(s[Len(s)])

RECURSIVE RunEnd(_, _, _)
\* first position >= i whose character does not satisfy the class
\* (Len(s) + 1 when the run reaches the end); cls is "d" (\d) or "s" (\s)
RunEnd(s, i, cls) ==
  IF i > Len(s) THEN i
  ELSE IF (cls = "d" /\ IsDigit(s[i])) \/ (cls = "s" /\ IsSpace(s[i]))
       THEN RunEnd(s, i + 1, cls)
       ELSE i

\* re.search(r'(\d+)\s*%', s) can match starting at position i
PercentMatchAt(s, i) ==
  /\ i <= Len(s)
  /\ IsDigit(s[i])
  /\ LET e == RunEnd(s, RunEnd(s, i, "d"), "s")
     IN  e <= Len(s) /\ s[e] = "%"

\* ------------------------------------------------------ occupancy record
\* PoolOccupancy.occupancy_percent: the number before the first '%', or None
occupancy_percent_of(occupancy_level) ==
  IF occupancy_level = <<>> THEN None
  ELSE LET starts == {i \in 1..Len(occupancy_level) : PercentMatchAt(occupancy_level, i)}
       IN  IF starts = {} THEN None
           ELSE LET i == CHOOSE k \in starts : \A j \in starts : k <= j
                IN  DigitsValue(SubSeq(occupancy_level, i, RunEnd(occupancy_level, i, "d") - 1))

\* Python round(num / den) for den > 0: to the nearest integer, halves to even
PyRound(num, den) ==
  LET f == num \div den
      r == num % den
  IN  IF 2 * r < den THEN f
      ELSE IF 2 * r > den THEN f + 1
      ELSE IF f % 2 = 0 THEN f ELSE f + 1

\* the percentage of free places computed by scrape_pool_data;
\* (1 - p/m) * 100 = 100 * (m - p) / m
PercentFree(current_count, max_count) ==
  IF max_count > 0 THEN PyRound(100 * (max_count - current_count), max_count) ELSE 0

MutClosedLabelAtZero(percent) ==
  IF percent = 0 THEN <<"g", "e", "s", "c", "h", "l", "o", "s", "s", "e", "n">>
  ELSE IntStr(percent) \o <<" ", "%", " ", "f", "r", "e", "i">>

\* f"{occupancy_percent} % frei"
FreiLabel(percent) == IntStr(percent) \o <<" ", "%", " ", "f", "r", "e", "i">>

\* f"{current_count}/{max_count} persons"
RawOccupancy(current_count, max_count) ==
  IntStr(current_count) \o <<"/">> \o IntStr(max_count)
    \o <<" ", "p", "e", "r", "s", "o", "n", "s">>

\* ------------------------------------------------- record: derived fields
UpperChars == <<"A", "B", "C", "D", "E", "F", "G", "H", "I", "J", "K", "L", "M",
                "N", "O", "P", "Q", "R", "S", "T", "U", "V", "W", "X", "Y", "Z">>
LowerChars == <<"a", "b", "c", "d", "e", "f", "g", "h", "i", "j", "k", "l", "m",
                "n", "o", "p", "q", "r", "s", "t", "u", "v", "w", "x", "y", "z">>

\* str.lower(), one character
LowerChar(c) ==
  IF \E i \in 1..26 : UpperChars[i] = c
    THEN LowerChars[CHOOSE i \in 1..26 : UpperChars[i] = c]
    ELSE c

Lower(s) == [i \in 1..Len(s) |-> LowerChar(s[i])]

\* `keyword in text`
Contains(text, keyword) ==
  \E i \in 1..(Len(text) - Len(keyword) + 1) :
    SubSeq(text, i, i + Len(keyword) - 1) = keyword

ClosedKeywords == {<<"g", "e", "s", "c", "h", "l", "o", "s", "s", "e", "n">>,
                   <<"c", "l", "o", "s", "e", "d">>,
                   <<"z", "u">>}

\* PoolOccupancy.is_open
is_open(rec) ==
  IF rec.occupancy_level = <<>> THEN FALSE
  ELSE ~\E keyword \in ClosedKeywords : Contains(Lower(rec.occupancy_level), keyword)

\* timestamps are whole hours counted from a Monday 00:00
\* PoolOccupancy.hour
hour(rec) == rec.timestamp % 24

\* PoolOccupancy.day_of_week: 0 = Monday .. 6 = Sunday
day_of_week(rec) == (rec.timestamp \div 24) % 7

\* PoolOccupancy.is_weekend
is_weekend(rec) == day_of_week(rec) >= 5

\* datetime.isoformat(): day and hour, in digits and the letter T
IsoFormat(ts) == NatStr(ts \div 24) \o <<"T">> \o NatStr(ts % 24)

\* str() of the float that occupancy_percent returns, '' for None (csv writer)
FloatCell(v) == IF v = None THEN <<>> ELSE IntStr(v) \o <<".", "0">>

\* 1 if flag else 0, as the csv writer prints it
FlagCell(flag) == IF flag THEN <<"1">> ELSE <<"0">>

\* ------------------------------------------------------------ CSV writer
\* fieldnames of save_to_csv
fieldnames ==
  <<<<"t", "i", "m", "e", "s", "t", "a", "m", "p">>,
    <<"p", "o", "o", "l", "_", "n", "a", "m", "e">>,
    <<"f", "a", "c", "i", "l", "i", "t", "y", "_", "t", "y", "p", "e">>,
    <<"o", "c", "c", "u", "p", "a", "n", "c", "y", "_", "p", "e", "r", "c", "e", "n", "t">>,
    <<"i", "s", "_", "o", "p", "e", "n">>,
    <<"h", "o", "u", "r">>,
    <<"d", "a", "y", "_", "o", "f", "_", "w", "e", "e", "k">>,
    <<"i", "s", "_", "w", "e", "e", "k", "e", "n", "d">>,
    <<"o", "c", "c", "u", "p", "a", "n", "c", "y", "_", "t", "e", "x", "t">>>>

PoolNameColumn == fieldnames[2]
FacilityTypeColumn == fieldnames[3]
OccupancyTextColumn == fieldnames[9]

\* PoolOccupancy.to_csv_row, the cells in fieldnames order as the writer prints them
to_csv_row(rec) ==
  <<IsoFormat(rec.timestamp),
    rec.pool_name,
    rec.facility_type,
    FloatCell(occupancy_percent_of(rec.occupancy_level)),
    FlagCell(is_open(rec)),
    NatStr(hour(rec)),
    NatStr(day_of_week(rec)),
    FlagCell(is_weekend(rec)),
    rec.occupancy_level>>

\* csv QUOTE_MINIMAL: a cell is quoted when it holds the delimiter, the quote
\* character or a character of the line terminator
NeedsQuotes(cell) ==
  \E i \in 1..Len(cell) : cell[i] \in {",", "\"", "\r", "\n"}

RECURSIVE DoubleQuotes(_)
\* doublequote: every quote character inside a quoted cell is written twice
DoubleQuotes(cell) ==
  IF cell = <<>> THEN <<>>
  ELSE (IF Head(cell) = "\"" THEN <<"\"", "\"">> ELSE <<Head(cell)>>)
         \o DoubleQuotes(Tail(cell))

WriteCell(cell) ==
  IF NeedsQuotes(cell) THEN <<"\"">> \o DoubleQuotes(cell) \o <<"\"">> ELSE cell

RECURSIVE JoinCells(_)
JoinCells(cells) ==
  IF Len(cells) = 0 THEN <<>>
  ELSE IF Len(cells) = 1 THEN WriteCell(cells[1])
  ELSE WriteCell(Head(cells)) \o <<",">> \o JoinCells(Tail(cells))

\* writer.writerow: the cells joined by commas, ended by "\r\n"
WriteRow(cells) == JoinCells(cells) \o <<"\r", "\n">>

\* writer.writeheader()
HeaderLine == WriteRow(fieldnames)

RECURSIVE WriteRows(_)
\* `for pool in pool_data: writer.writerow(pool.to_csv_row())`
WriteRows(batch) ==
  IF batch = <<>> THEN <<>>
  ELSE WriteRow(to_csv_row(Head(batch))) \o WriteRows(Tail(batch))

MutHeaderAlways(file_exists) == TRUE

\* `if not file_exists: writer.writeheader()`
WritesHeader(file_exists) == ~file_exists

\* what one save_to_csv call appends to the file
CsvAppended(file_exists, batch) ==
  (IF WritesHeader(file_exists) THEN HeaderLine ELSE <<>>) \o WriteRows(batch)

\* ------------------------------------------------------------ CSV reader
\* open(filepath, 'r') without newline='': "\r\n" and "\r" are read as "\n"
UniversalNewlines(text) ==
  LET translated == [i \in 1..Len(text) |->
                       IF text[i] = "\r" THEN "\n"
                       ELSE IF text[i] = "\n" /\ i > 1 /\ text[i - 1] = "\r" THEN ""
                       ELSE text[i]]
  IN  SelectSeq(translated, LAMBDA c : c # "")

\* the csv reader between two characters: its state, the cell and the row
\* being read, and the rows read
ReaderStart == [state |-> "START_RECORD", field |-> <<>>, row |-> <<>>, rows |-> <<>>]

SaveField(r, state) == [r EXCEPT !.row = Append(r.row, r.field), !.field = <<>>, !.state = state]

AddChar(r, c, state) == [r EXCEPT !.field = Append(r.field, c), !.state = state]

\* parse_process_char of the csv module, for a character of the line
ReaderChar(r, c) ==
  IF r.state \in {"START_RECORD", "START_FIELD"} THEN
    IF c \in {"\n", "\r"} THEN
      IF r.state = "START_RECORD" THEN [r EXCEPT !.state = "EAT_CRNL"]
      ELSE SaveField(r, "EAT_CRNL")
    ELSE IF c = "\"" THEN [r EXCEPT !.state = "IN_QUOTED_FIELD"]
    ELSE IF c = "," THEN SaveField(r, "START_FIELD")
    ELSE AddChar(r, c, "IN_FIELD")
  ELSE IF r.state = "IN_FIELD" THEN
    IF c \in {"\n", "\r"} THEN SaveField(r, "EAT_CRNL")
    ELSE IF c = "," THEN SaveField(r, "START_FIELD")
    ELSE AddChar(r, c, "IN_FIELD")
  ELSE IF r.state = "IN_QUOTED_FIELD" THEN
    IF c = "\"" THEN [r EXCEPT !.state = "QUOTE_IN_QUOTED_FIELD"]
    ELSE AddChar(r, c, "IN_QUOTED_FIELD")
  ELSE IF r.state = "QUOTE_IN_QUOTED_FIELD" THEN
    IF c = "\"" THEN AddChar(r, c, "IN_QUOTED_FIELD")
    ELSE IF c = "," THEN SaveField(r, "START_FIELD")
    ELSE IF c \in {"\n", "\r"} THEN SaveField(r, "EAT_CRNL")
    ELSE AddChar(r, c, "IN_FIELD")
  ELSE r                                   \* EAT_CRNL: "\n" and "\r" are skipped

\* the row is handed out when the reader is back at START_RECORD
EmitRow(r) == [state |-> "START_RECORD", field |-> <<>>, row |-> <<>>,
               rows |-> Append(r.rows, r.row)]

\* parse_process_char at the end of a line
ReaderEndOfLine(r) ==
  IF r.state = "IN_QUOTED_FIELD" THEN r      \* the cell goes on in the next line
  ELSE IF r.state \in {"START_RECORD", "EAT_CRNL"} THEN EmitRow(r)
  ELSE EmitRow(SaveField(r, "START_RECORD"))

\* the end of the file inside a quoted cell: the cell and the row are kept
ReaderEndOfFile(r) ==
  IF r.state = "IN_QUOTED_FIELD" THEN EmitRow(SaveField(r, "START_RECORD")).rows
  ELSE r.rows

\* the reader after the character at position i: the character, and the end
\* of the line when the character ends it
ReaderStep(text, i, r) ==
  LET r1 == ReaderChar(r, text[i])
  IN  IF text[i] = "\n" \/ i = Len(text) THEN ReaderEndOfLine(r1) ELSE r1

RECURSIVE ReadChars(_, _, _, _)
\* the reader after the characters lo..hi, in order
ReadChars(text, lo, hi, r) ==
  IF lo > hi THEN r
  ELSE IF lo = hi THEN ReaderStep(text, lo, r)
  ELSE LET mid == (lo + hi) \div 2
           left == ReadChars(text, lo, mid, r)
       IN  IF left.state = "" THEN left ELSE ReadChars(text, mid + 1, hi, left)

\* csv.reader over the lines of the text, a line ending with its "\n"
ReadLines(text) == ReaderEndOfFile(ReadChars(text, 1, Len(text), ReaderStart))

\* a key of the row without a cell: restval
NoCell == <<"None">>

\* dict(zip(fieldnames, row)) of csv.DictReader; keys without a cell get None
RowDict(header, row) ==
  [key \in Seq2Set(header) |->
     LET last == CHOOSE i \in 1..Len(header) :
                   header[i] = key /\ \A j \in 1..Len(header) : header[j] = key => j <= i
     IN  IF last <= Len(row) THEN row[last] ELSE NoCell]

\* list(csv.DictReader(csvfile)): the first row names the keys, empty rows
\* are skipped
DictReader(text) ==
  LET rows == ReadLines(UniversalNewlines(text))
  IN  IF rows = <<>> THEN <<>>
      ELSE LET data == SelectSeq(Tail(rows), LAMBDA row : row # <<>>)
           IN  [k \in 1..Len(data) |-> RowDict(rows[1], data[k])]

\* ------------------------------------------------------------- registry
OrgIds == <<30197, 30187, 30207, 30185>>
Nordbad == <<"N", "o", "r", "d", "b", "a", "d">>
Westbad == <<"W", "e", "s", "t", "b", "a", "d">>
Names == <<Nordbad, Westbad, Westbad, Nordbad>>

\* FacilityType values
POOL == <<"p", "o", "o", "l">>
SAUNA == <<"s", "a", "u", "n", "a">>
UNKNOWN == <<"u", "n", "k", "n", "o", "w", "n">>
Types == <<POOL, POOL, SAUNA, SAUNA>>

Slot(i) == ((i - 1) % 4) + 1

\* a Facility of the registry
Facility(i, cap, act) ==
  [org_id |-> OrgIds[Slot(i)] + 100 * ((i - 1) \div 4),
   name |-> Names[Slot(i)],
   facility_type |-> Types[Slot(i)],
   max_capacity |-> cap,
   last_seen |-> None,
   first_seen |-> None,
   active |-> act,
   auto_discovered |-> FALSE]

\* datetime.fromisoformat of a string that isoformat wrote
FromIsoFormat(text) ==
  LET t == CHOOSE i \in 1..Len(text) : text[i] = "T"
  IN  24 * DigitsValue(SubSeq(text, 1, t - 1)) + DigitsValue(SubSeq(text, t + 1, Len(text)))

\* Facility.to_dict: a timestamp that is set is written with isoformat, one
\* that is None stays null (the empty text here)
Facility_to_dict(facility) ==
  [facility EXCEPT
     !.last_seen = IF facility.last_seen = None THEN <<>> ELSE IsoFormat(facility.last_seen),
     !.first_seen = IF facility.first_seen = None THEN <<>> ELSE IsoFormat(facility.first_seen)]

\* the Facility that load builds from an item of the file
FacilityOfItem(item) ==
  [item EXCEPT
     !.last_seen = IF item.last_seen = <<>> THEN None ELSE FromIsoFormat(item.last_seen),
     !.first_seen = IF item.first_seen = <<>> THEN None ELSE FromIsoFormat(item.first_seen)]

\* self.facilities[facility.org_id] = facility: the entry under the id is
\* replaced where it stands, a new id is added at the end
DictSet(fs, facility) ==
  IF \E i \in 1..Len(fs) : fs[i].org_id = facility.org_id
  THEN [i \in 1..Len(fs) |-> IF fs[i].org_id = facility.org_id THEN facility ELSE fs[i]]
  ELSE Append(fs, facility)

RECURSIVE LoadItems(_, _)
\* the loop of load over the items of the file
LoadItems(items, fs) ==
  IF items = <<>> THEN fs
  ELSE LoadItems(Tail(items), DictSet(fs, FacilityOfItem(Head(items))))

\* the positions in Names, Types and OrgIds of the entries of _load_defaults
DefaultSlots == <<1, 3>>

\* FacilityRegistry._load_defaults at the clock value
LoadDefaults(clock) ==
  [k \in 1..Len(DefaultSlots) |->
     [Facility(DefaultSlots[k], None, TRUE) EXCEPT !.first_seen = clock]]

MutSaveActiveOnly(fs) ==
  LET kept == SelectSeq(fs, LAMBDA facility : facility.active)
  IN  [exists |-> TRUE, entries |-> [i \in 1..Len(kept) |-> Facility_to_dict(kept[i])]]

\* FacilityRegistry.save: the file after the facilities are written; of the
\* document only the entry `facilities` is kept, the one load reads
SavedFile(fs) ==
  [exists |-> TRUE, entries |-> [i \in 1..Len(fs) |-> Facility_to_dict(fs[i])]]

\* FacilityRegistry.load: the registry after construction
LoadRegistry(file, clock) ==
  IF file.exists THEN LoadItems(file.entries, <<>>) ELSE LoadDefaults(clock)

\* `org_id in self.facilities`
HasId(fs, org_id) == \E i \in 1..Len(fs) : fs[i].org_id = org_id

\* what a lookup returns for a key that is not mapped to a Facility
NoFacility == [none |-> TRUE]

\* FacilityRegistry.get_facility: self.facilities.get(org_id)
get_facility(fs, org_id) ==
  IF HasId(fs, org_id)
  THEN [raised |-> FALSE, value |-> fs[CHOOSE i \in 1..Len(fs) : fs[i].org_id = org_id]]
  ELSE [raised |-> FALSE, value |-> NoFacility]

\* FacilityRegistry.add_facility: the name org_id of its second statement is
\* bound nowhere, so the call ends there with NameError; the registry and
\* the file are as before
add_facility(fs, facility, auto_discovered, clock) ==
  [raised |-> TRUE, error |-> "NameError", facilities |-> fs, saved |-> FALSE]

\* FacilityRegistry.get_unknown_org_ids
get_unknown_org_ids(fs, discovered_ids) == {id \in discovered_ids : ~HasId(fs, id)}

MutToggleActive(fs, org_id) ==
  [i \in 1..Len(fs) |->
     IF fs[i].org_id = org_id THEN [fs[i] EXCEPT !.active = ~fs[i].active] ELSE fs[i]]

\* FacilityRegistry.mark_inactive: the registry after the call
mark_inactive(fs, org_id) ==
  [i \in 1..Len(fs) |->
     IF fs[i].org_id = org_id THEN [fs[i] EXCEPT !.active = FALSE] ELSE fs[i]]

RECURSIVE MarkInactiveAll(_, _)
\* `for org_id in missing_ids: self.registry.mark_inactive(org_id)`
MarkInactiveAll(fs, ids) ==
  IF ids = {} THEN fs
  ELSE LET id == CHOOSE id \in ids : TRUE
       IN  MarkInactiveAll(mark_inactive(fs, id), ids \ {id})

\* FacilityDiscovery.discover_from_website: the fixed list of ids
DiscoveredIds == {OrgIds[1], OrgIds[2], OrgIds[3]}

\* what probe_org_id returns: None, or the first element of the answer
ProbeResults == {NoData, [maxPersonCount |-> 1], [maxPersonCount |-> None]}

\* the capacity loop of check_for_changes, for one entry of the registry
ProbedCapacity(facility, probes) ==
  IF /\ facility.org_id \in DiscoveredIds
     /\ probes[facility.org_id] # NoData
     /\ facility.max_capacity # None
     /\ facility.max_capacity # 0
     /\ facility.max_capacity # probes[facility.org_id].maxPersonCount
  THEN probes[facility.org_id].maxPersonCount
  ELSE facility.max_capacity

\* FacilityDiscovery.check_for_changes on the answers of the probes: a new
\* id that answers is handed to add_facility, which raises; otherwise the
\* active ids that the website no longer shows are marked inactive and the
\* capacities that changed are taken over, each with a save
check_for_changes(fs, probes) ==
  LET new_ids == get_unknown_org_ids(fs, DiscoveredIds)
      known_active == {fs[i].org_id : i \in {j \in 1..Len(fs) : fs[j].active}}
      missing_ids == known_active \ DiscoveredIds
      marked == MarkInactiveAll(fs, missing_ids)
      updated == [i \in 1..Len(marked) |->
                    [marked[i] EXCEPT !.max_capacity = ProbedCapacity(marked[i], probes)]]
  IN  IF \E id \in new_ids : probes[id] # NoData
      THEN [raised |-> TRUE, error |-> "NameError", facilities |-> fs, saved |-> FALSE]
      ELSE [raised |-> FALSE, error |-> "none", facilities |-> updated,
            saved |-> (missing_ids # {} \/ updated # marked)]

\* ------------------------------------------------ facilities.py mapping
ICE_RINK == <<"i", "c", "e", "_", "r", "i", "n", "k">>

\* FACILITIES: (name, type) -> org_id
FACILITIES ==
  (<<Nordbad, POOL>> :> 30184) @@ (<<Westbad, POOL>> :> 30199)
    @@ (<<Nordbad, SAUNA>> :> 30185) @@ (<<Westbad, SAUNA>> :> 30207)

MutGetOrgIdIndexes(name, facility_type) ==
  IF <<name, facility_type>> \in DOMAIN FACILITIES
  THEN [raised |-> FALSE, value |-> FACILITIES[<<name, facility_type>>]]
  ELSE [raised |-> TRUE, error |-> "KeyError", value |-> None]

\* get_org_id: FACILITIES.get((name, facility_type))
get_org_id(name, facility_type) ==
  IF <<name, facility_type>> \in DOMAIN FACILITIES
  THEN [raised |-> FALSE, value |-> FACILITIES[<<name, facility_type>>]]
  ELSE [raised |-> FALSE, value |-> None]

\* UnknownFacilityError(name, facility_type): the exception keeps both
UnknownFacilityError(name, facility_type) ==
  [raised |-> TRUE, error |-> "UnknownFacilityError", name |-> name,
   facility_type |-> facility_type]

\* require_id: the id of a mapped (name, type); UnknownFacilityError for
\* one that is not mapped
require_id(name, facility_type) ==
  LET found == get_org_id(name, facility_type)
  IN  IF ~found.raised /\ found.value = None
      THEN UnknownFacilityError(name, facility_type)
      ELSE found

\* ------------------------------------------------------------- transport
\* what session.get() hands to fetch_occupancy: an exception of the requests
\* library (timeout, connection error, retries exhausted), or a response
\* with a status and a body
\* one element of the JSON array; maxPersonCount may be null
Payloads ==
  [personCount : 0..MaxCount, maxPersonCount : (0..MaxCount) \cup {None}]

\* a body: text that is no JSON, a JSON object, or a JSON array of payloads
Bodies ==
  [json : {"invalid", "object"}, items : {<<>>}]
    \cup [json : {"array"}, items : {<<>>} \cup {<<d>> : d \in Payloads}]

Responses ==
  [kind : {"exception"}, error : {"Timeout", "ConnectionError", "RetryError"}]
    \cup [kind : {"response"}, status : {200, 404}, body : Bodies]

\* the try block of fetch_occupancy: the exception it ends with ("none" when
\* it completes) and the value it returns
TryFetch(resp) ==
  IF resp.kind = "exception"
    THEN [exc |-> resp.error, value |-> NoData]             \* session.get raised
  ELSE IF resp.status >= 400
    THEN [exc |-> "HTTPError", value |-> NoData]            \* raise_for_status()
  ELSE IF resp.body.json = "invalid"
    THEN [exc |-> "JSONDecodeError", value |-> NoData]      \* response.json()
  ELSE IF resp.body.json = "array" /\ Len(resp.body.items) > 0
    THEN [exc |-> "none", value |-> resp.body.items[1]]     \* return data[0]
  ELSE [exc |-> "none", value |-> NoData]                   \* empty response

MutCatchTimeoutOnly(exc) == exc = "Timeout"

\* `except requests.exceptions.RequestException`: the classes of the requests
\* library that the try block can end with are all subclasses of it
\* (requests.exceptions.JSONDecodeError since requests 2.27)
IsRequestException(exc) ==
  exc \in {"Timeout", "ConnectionError", "RetryError", "HTTPError", "JSONDecodeError"}

\* SWMAPIScraper.fetch_occupancy after session.get: whether an exception
\* reaches the caller, and the value returned otherwise
FetchOutcome(resp) ==
  LET t == TryFetch(resp)
  IN  IF t.exc = "none" THEN [raised |-> FALSE, value |-> t.value]
      ELSE IF IsRequestException(t.exc) THEN [raised |-> FALSE, value |-> NoData]
      ELSE [raised |-> TRUE, value |-> NoData]

\* the value fetch_occupancy returns to scrape_pool_data
fetch_occupancy(resp) == FetchOutcome(resp).value

\* ---------------------------------------------------------------- state
VARIABLES
  facilities,         \* registry.facilities, in insertion order
  config_file,        \* the registry file: whether it exists, and the saved entries
  now,                \* the wall clock
  pc,                 \* scrape_pool_data: "idle", "loop", "done" or "raised"
  timestamp,          \* local of scrape_pool_data
  pool_data,          \* local of scrape_pool_data: the batch
  active_facilities,  \* local: positions in facilities of the snapshot's entries
  idx,                \* loop position in active_facilities
  fetched,            \* history: <<org_id, data, sleeps before it>> of every fetch of the cycle
  sleeps,             \* history: time.sleep(0.1) calls of the cycle
  fpc,                \* one fetch_occupancy call: "idle", "sending" or "returned"
  retries,            \* urllib3 Retry.total of the request being sent
  attempts,           \* history: the upstream's answer to every HTTP attempt
  foutcome,           \* what the call handed to its caller
  csv_file,           \* the CSV target: whether it exists, and its characters
  csv_start,          \* what the CSV target was at first: "absent", "empty", "written"
  written,            \* history: the records handed to save_to_csv, in order
  saves,              \* history: completed save_to_csv calls
  loaded,             \* the last load_from_csv call and what it returned
  cpc,                \* per writer process: "idle", "checked", "opened", "closed"
  cexists,            \* per writer process: local file_exists
  cbatch,             \* per writer process: argument pool_data
  json_files,         \* the JSON snapshots of the data directory, by file name
  json_last,          \* the last save_to_json call: its batch and file name
  json_log,           \* history: per save_to_json call, the files before and after it
  mpc,                \* main of the scrape command: "start", "in_with", "after_with", "exited"
  exit_code,          \* what main returned
  format,             \* args.format
  session,            \* the scraper's requests.Session: "none", "open" or "closed"
  reg_last            \* the last call of a registry operation or of the cycle, and the registry before it

scrapeVars == <<facilities, config_file, now, pc, timestamp, pool_data,
                active_facilities, idx, fetched, sleeps>>

fetchVars == <<fpc, retries, attempts, foutcome>>

csvVars == <<csv_file, csv_start, written, saves, loaded, cpc, cexists, cbatch>>

jsonVars == <<json_files, json_last, json_log>>

mainVars == <<mpc, exit_code, format, session>>

regVars == <<reg_last>>

\* the processes that call save_to_csv on the same target
Writers == {1, 2}

vars == <<scrapeVars, fetchVars, csvVars, jsonVars, mainVars, regVars>>

\* ------------------------------------------------------ scrape_pool_data
MutStampNow(ts, clock) == clock

\* the timestamp given to a record: the one captured at batch start
RecordTimestamp(ts, clock) == ts

\* the PoolOccupancy appended for a facility that returned data
PoolOccupancy(facility, data, ts) ==
  [pool_name |-> facility.name,
   occupancy_level |-> FreiLabel(PercentFree(data.personCount, data.maxPersonCount)),
   timestamp |-> ts,
   raw_occupancy |-> RawOccupancy(data.personCount, data.maxPersonCount),
   facility_type |-> facility.facility_type]

MutPlaceholderRecords(facility, data, ts) ==
  IF data # NoData THEN <<PoolOccupancy(facility, data, ts)>>
  ELSE <<[pool_name |-> facility.name, occupancy_level |-> <<>>, timestamp |-> ts,
          raw_occupancy |-> <<>>, facility_type |-> facility.facility_type]>>

\* what one loop iteration appends to pool_data: `if data:` ... `else:` skip
RecordsFor(facility, data, ts) ==
  IF data # NoData THEN <<PoolOccupancy(facility, data, ts)>> ELSE <<>>

MutUpdateStampsFirstSeen(facility, max_count, ts) ==
  [facility EXCEPT !.max_capacity = max_count, !.first_seen = ts]

\* `facility.max_capacity = max_count` and `facility.last_seen = timestamp`
UpdatedCapacity(facility, max_count, ts) ==
  [facility EXCEPT !.max_capacity = max_count, !.last_seen = ts]

MutChangedAlsoZero(facility, data) == facility.max_capacity # data.maxPersonCount

\* `if max_count and facility.max_capacity != max_count`
CapacityChanged(facility, data) ==
  data.maxPersonCount # 0 /\ facility.max_capacity # data.maxPersonCount

RECURSIVE ActivePositions(_, _)
\* [f for f in self.registry.facilities.values() if f.active], as positions
ActivePositions(fs, i) ==
  IF i > Len(fs) THEN <<>>
  ELSE (IF fs[i].active THEN <<i>> ELSE <<>>) \o ActivePositions(fs, i + 1)

AfterIteration == IF idx = Len(active_facilities) THEN "done" ELSE "loop"

MutSleepOnceAhead(count) == IF count = 0 THEN 1 ELSE count

\* `time.sleep(0.1)`, the first statement of the loop body: the number of
\* sleeps of the cycle after it
Slept(count) == count + 1

\* entry of scrape_pool_data, which a run of the scrape command calls once:
\* timestamp and snapshot
BeginCycle ==
  /\ pc = "idle"
  /\ timestamp' = now
  /\ pool_data' = <<>>
  /\ active_facilities' = ActivePositions(facilities, 1)
  /\ idx' = 1
  /\ fetched' = <<>>
  /\ sleeps' = 0
  /\ pc' = IF ActivePositions(facilities, 1) = <<>> THEN "done" ELSE "loop"
  /\ UNCHANGED <<facilities, config_file, now>>
  /\ reg_last' = [op |-> "scrape_pool_data", before |-> facilities,
                  file_before |-> config_file]
  /\ UNCHANGED <<fetchVars, csvVars, jsonVars, mainVars>>

\* one iteration whose fetch returned no data
StepNoData ==
  /\ pc = "loop"
  /\ \E resp \in Responses :
       LET facility == facilities[active_facilities[idx]]
           data == fetch_occupancy(resp)
       IN  /\ data = NoData
           /\ fetched' = Append(fetched, <<facility.org_id, data, Slept(sleeps)>>)
           /\ pool_data' = pool_data \o RecordsFor(facility, data, RecordTimestamp(timestamp, now + 1))
  /\ sleeps' = Slept(sleeps)
  /\ now' = now + 1
  /\ idx' = idx + 1
  /\ pc' = AfterIteration
  /\ UNCHANGED <<facilities, config_file, timestamp, active_facilities>>
  /\ UNCHANGED <<fetchVars, csvVars, jsonVars, mainVars, regVars>>

\* one iteration whose fetch returned counts; the capacity update, when there
\* is one, is saved
StepRecord ==
  /\ pc = "loop"
  /\ \E resp \in Responses :
       LET pos == active_facilities[idx]
           facility == facilities[pos]
           data == fetch_occupancy(resp)
       IN  /\ data # NoData
           /\ data.maxPersonCount # None
           /\ fetched' = Append(fetched, <<facility.org_id, data, Slept(sleeps)>>)
           /\ IF CapacityChanged(facility, data)
              THEN /\ facilities' = [facilities EXCEPT ![pos] =
                                       UpdatedCapacity(facility, data.maxPersonCount, timestamp)]
                   /\ config_file' = SavedFile(facilities')
              ELSE UNCHANGED <<facilities, config_file>>
           /\ pool_data' = pool_data \o RecordsFor(facility, data, RecordTimestamp(timestamp, now + 1))
  /\ sleeps' = Slept(sleeps)
  /\ now' = now + 1
  /\ idx' = idx + 1
  /\ pc' = AfterIteration
  /\ UNCHANGED <<timestamp, active_facilities>>
  /\ UNCHANGED <<fetchVars, csvVars, jsonVars, mainVars, regVars>>

\* one iteration whose capacity update cannot be written: registry.save()
\* raises OSError, which scrape_pool_data does not catch
StepSaveFails ==
  /\ pc = "loop"
  /\ \E resp \in Responses :
       LET pos == active_facilities[idx]
           facility == facilities[pos]
           data == fetch_occupancy(resp)
       IN  /\ data # NoData
           /\ data.maxPersonCount # None
           /\ CapacityChanged(facility, data)
           /\ fetched' = Append(fetched, <<facility.org_id, data, Slept(sleeps)>>)
           /\ facilities' = [facilities EXCEPT ![pos] =
                               UpdatedCapacity(facility, data.maxPersonCount, timestamp)]
  /\ sleeps' = Slept(sleeps)
  /\ now' = now + 1
  /\ pc' = "raised"
  /\ UNCHANGED <<config_file, timestamp, pool_data, active_facilities, idx>>
  /\ UNCHANGED <<fetchVars, csvVars, jsonVars, mainVars, regVars>>

\* one iteration whose payload has a null maxPersonCount: `max_count > 0`
\* raises TypeError, which scrape_pool_data does not catch
StepMalformed ==
  /\ pc = "loop"
  /\ \E resp \in Responses :
       LET facility == facilities[active_facilities[idx]]
           data == fetch_occupancy(resp)
       IN  /\ data # NoData
           /\ data.maxPersonCount = None
           /\ fetched' = Append(fetched, <<facility.org_id, data, Slept(sleeps)>>)
  /\ sleeps' = Slept(sleeps)
  /\ now' = now + 1
  /\ pc' = "raised"
  /\ UNCHANGED <<facilities, config_file, timestamp, pool_data, active_facilities,
                 idx>>
  /\ UNCHANGED <<fetchVars, csvVars, jsonVars, mainVars, regVars>>

\* ------------------------------------------------------------ DataStorage
\* records handed to the storage layer: names as the registry file gives
\* them, among them one with a comma and a quote and one with a carriage
\* return
SampleNames == <<Nordbad,
                 <<"S", "p", "a", ",", " ", "\"", "1", "\"">>,
                 <<"B", "a", "d", "\r", "O", "s", "t">>>>

SampleFacility(i) ==
  [Facility(1, None, TRUE) EXCEPT !.name = SampleNames[i],
                                  !.facility_type = <<POOL, SAUNA, POOL>>[i]]

SampleRecords ==
  <<PoolOccupancy(SampleFacility(1), [personCount |-> 1, maxPersonCount |-> 2], 3),
    PoolOccupancy(SampleFacility(2), [personCount |-> 0, maxPersonCount |-> 2], 130),
    PoolOccupancy(SampleFacility(3), [personCount |-> 2, maxPersonCount |-> 2], 27)>>

\* the batches of at most n records of the samples
Batches(samples, n) == UNION {[1..len -> samples] : len \in 0..n}

\* the records handed to save_to_csv, and those handed to save_to_json
CsvSamples == {SampleRecords[2], SampleRecords[3]}
JsonSamples == {SampleRecords[i] : i \in 1..Len(SampleRecords)}

\* the rows a file written earlier by save_to_csv holds
PriorRows(start) == IF start = "written" THEN <<SampleRecords[1]>> ELSE <<>>

\* the target file before the first call: absent, empty, or written earlier
\* by save_to_csv
StartFile(start) ==
  IF start = "absent" THEN [exists |-> FALSE, text |-> <<>>]
  ELSE IF start = "empty" THEN [exists |-> TRUE, text |-> <<>>]
  ELSE [exists |-> TRUE, text |-> CsvAppended(FALSE, PriorRows(start))]

\* DataStorage.load_from_csv
load_from_csv(file) == IF ~file.exists THEN <<>> ELSE DictReader(file.text)

NotLoaded == [called |-> FALSE, saves |-> 0, of |-> <<>>, rows |-> <<>>]

\* ------------------------------------------------------------ save_to_json
\* a Python dict with string keys, as a function on the keys
EmptyDict == [key \in {} |-> 0]

\* dict.update, and the order of the entries of a dict display: an entry
\* given later replaces one given earlier under the same key
Update(d, entries) == entries @@ d

TotalFacilitiesKey == <<"t", "o", "t", "a", "l", "_", "f", "a", "c", "i", "l", "i", "t", "i", "e", "s">>
HourKey == <<"h", "o", "u", "r">>
DayOfWeekKey == <<"d", "a", "y", "_", "o", "f", "_", "w", "e", "e", "k">>
IsWeekendKey == <<"i", "s", "_", "w", "e", "e", "k", "e", "n", "d">>
DurationKey == <<"d", "u", "r", "a", "t", "i", "o", "n", "_", "m", "s">>
MethodKey == <<"m", "e", "t", "h", "o", "d">>
ScrapeTimestampKey == <<"s", "c", "r", "a", "p", "e", "_", "t", "i", "m", "e", "s", "t", "a", "m", "p">>
ScrapeMetadataKey == <<"s", "c", "r", "a", "p", "e", "_", "m", "e", "t", "a", "d", "a", "t", "a">>
SummaryKey == <<"s", "u", "m", "m", "a", "r", "y">>
AvgPoolOccupancyKey == <<"a", "v", "g", "_", "p", "o", "o", "l", "_", "o", "c", "c", "u", "p", "a", "n", "c", "y">>
BusiestPoolKey == <<"b", "u", "s", "i", "e", "s", "t", "_", "p", "o", "o", "l">>
QuietestPoolKey == <<"q", "u", "i", "e", "t", "e", "s", "t", "_", "p", "o", "o", "l">>

\* `days` of PoolOccupancy.day_name
DayNames == <<<<"M", "o", "n", "d", "a", "y">>,
              <<"T", "u", "e", "s", "d", "a", "y">>,
              <<"W", "e", "d", "n", "e", "s", "d", "a", "y">>,
              <<"T", "h", "u", "r", "s", "d", "a", "y">>,
              <<"F", "r", "i", "d", "a", "y">>,
              <<"S", "a", "t", "u", "r", "d", "a", "y">>,
              <<"S", "u", "n", "d", "a", "y">>>>

\* PoolOccupancy.day_name
day_name(rec) == DayNames[day_of_week(rec) + 1]

\* PoolOccupancy.to_dict
to_dict(rec) ==
  [pool_name |-> rec.pool_name,
   facility_type |-> rec.facility_type,
   occupancy_level |-> rec.occupancy_level,
   occupancy_percent |-> occupancy_percent_of(rec.occupancy_level),
   is_open |-> is_open(rec),
   timestamp |-> IsoFormat(rec.timestamp),
   hour |-> hour(rec),
   day_of_week |-> day_of_week(rec),
   day_name |-> day_name(rec),
   is_weekend |-> is_weekend(rec),
   raw_occupancy |-> rec.raw_occupancy]

\* the keys of by_type
BatchTypes(batch) == {batch[i].facility_type : i \in 1..Len(batch)}

\* by_type[facility_type]: the records of the type, in batch order
by_type(batch, facility_type) ==
  SelectSeq(batch, LAMBDA rec : rec.facility_type = facility_type)

\* f'{facility_type}_count'
CountKey(facility_type) == facility_type \o <<"_", "c", "o", "u", "n", "t">>

MutPluralKeyBare(facility_type) == facility_type

\* f'{facility_type}s'
PluralKey(facility_type) == facility_type \o <<"s">>

\* the metadata the scrape command passes: duration and method
CliMetadata == (DurationKey :> 1) @@ (MethodKey :> <<"a", "p", "i">>)

\* the `metadata` argument: None, or the scrape command's mapping
MetadataArgs == {EmptyDict, CliMetadata}

\* scrape_metadata: the computed fields, then the counts, then the caller's
ScrapeMetadata(batch, scrape_time, metadata) ==
  LET computed == (TotalFacilitiesKey :> Len(batch))
                    @@ (HourKey :> scrape_time % 24)
                    @@ (DayOfWeekKey :> (scrape_time \div 24) % 7)
                    @@ (IsWeekendKey :> ((scrape_time \div 24) % 7 >= 5))
      counts == [key \in {CountKey(t) : t \in BatchTypes(batch)} |->
                   LET t == CHOOSE t \in BatchTypes(batch) : CountKey(t) = key
                   IN  Len(by_type(batch, t))]
  IN  Update(Update(computed, counts), metadata)

\* facilities_by_type
FacilitiesByType(batch) ==
  [key \in {PluralKey(t) : t \in BatchTypes(batch)} |->
     LET t == CHOOSE t \in BatchTypes(batch) : PluralKey(t) = key
         group == by_type(batch, t)
     IN  [k \in 1..Len(group) |-> to_dict(group[k])]]

\* `p.occupancy_percent or default`: None and 0.0 give the default
PercentOr(rec, default) ==
  LET percent == occupancy_percent_of(rec.occupancy_level)
  IN  IF percent = None \/ percent = 0 THEN default ELSE percent

RECURSIVE SumPercent(_)
\* sum(p.occupancy_percent or 0 for p in pools)
SumPercent(pools) ==
  IF pools = <<>> THEN 0 ELSE PercentOr(Head(pools), 0) + SumPercent(Tail(pools))

\* max(pools, key=...): the first record with the largest key
Busiest(pools) ==
  pools[CHOOSE i \in 1..Len(pools) :
          /\ \A j \in 1..Len(pools) : PercentOr(pools[j], 0) <= PercentOr(pools[i], 0)
          /\ \A j \in 1..(i - 1) : PercentOr(pools[j], 0) < PercentOr(pools[i], 0)]

\* min(pools, key=...): the first record with the smallest key
Quietest(pools) ==
  pools[CHOOSE i \in 1..Len(pools) :
          /\ \A j \in 1..Len(pools) : PercentOr(pools[j], 100) >= PercentOr(pools[i], 100)
          /\ \A j \in 1..(i - 1) : PercentOr(pools[j], 100) > PercentOr(pools[i], 100)]

\* summary: empty without pools; the average is kept as sum and count
Summary(batch) ==
  LET pools == by_type(batch, POOL)
  IN  IF pools = <<>> THEN EmptyDict
      ELSE (AvgPoolOccupancyKey :> [sum |-> SumPercent(pools), count |-> Len(pools)])
             @@ (BusiestPoolKey :> Busiest(pools).pool_name)
             @@ (QuietestPoolKey :> Quietest(pools).pool_name)

\* `data`, the mapping json.dump writes
JsonDocument(batch, scrape_time, metadata) ==
  Update(Update(Update((ScrapeTimestampKey :> IsoFormat(scrape_time)),
                       (ScrapeMetadataKey :> ScrapeMetadata(batch, scrape_time, metadata))),
                FacilitiesByType(batch)),
         (SummaryKey :> Summary(batch)))

\* f"pool_data_{timestamp}.json"
JsonFilename(clock) ==
  <<"p", "o", "o", "l", "_", "d", "a", "t", "a", "_">> \o NatStr(clock \div 24) \o <<"_">> \o NatStr(clock % 24)
    \o <<".", "j", "s", "o", "n">>

NotSaved == [called |-> FALSE, batch |-> <<>>, filename |-> <<>>, call |-> 0]

WritersIdle ==
  /\ cpc = [p \in Writers |-> "idle"]
  /\ cexists = [p \in Writers |-> FALSE]
  /\ cbatch = [p \in Writers |-> <<>>]

CsvIdle ==
  /\ csv_start = "absent"
  /\ csv_file = StartFile("absent")
  /\ written = <<>>
  /\ saves = 0
  /\ loaded = NotLoaded
  /\ WritersIdle

JsonIdle ==
  /\ json_files = EmptyDict
  /\ json_last = NotSaved
  /\ json_log = <<>>

MainIdle ==
  /\ mpc = "start"
  /\ exit_code = None
  /\ format = "json"
  /\ session = "none"

NotCalled == [op |-> "none"]

RegIdle == reg_last = NotCalled

ScrapeIdle ==
  /\ config_file = [exists |-> FALSE, entries |-> <<>>]
  /\ now = 0
  /\ pc = "idle"
  /\ timestamp = None
  /\ pool_data = <<>>
  /\ active_facilities = <<>>
  /\ idx = 1
  /\ fetched = <<>>
  /\ sleeps = 0

FetchIdle ==
  /\ fpc = "idle"
  /\ retries = 0
  /\ attempts = <<>>
  /\ foutcome = [raised |-> FALSE, value |-> NoData]

\* a registry as FacilityRegistry.load leaves it (capacities not yet known, or
\* known from the file), a scraper that has not run
InitScrape ==
  /\ \E cap \in {None, 1}, acts \in [1..NumFacilities -> BOOLEAN] :
       facilities = [i \in 1..NumFacilities |-> Facility(i, cap, acts[i])]
  /\ ScrapeIdle
  /\ FetchIdle
  /\ CsvIdle
  /\ JsonIdle
  /\ MainIdle
  /\ RegIdle

NextScrape ==
  \/ BeginCycle
  \/ StepNoData
  \/ StepRecord
  \/ StepSaveFails
  \/ StepMalformed

SpecScrape == InitScrape /\ [][NextScrape]_vars

\* ------------------------------------------------- transport-level retry
\* Retry(total=3, ...): the number of retries urllib3 allows
RetryTotal == 3

\* status_forcelist
StatusForcelist == {429, 500, 502, 503, 504}

\* the upstream's answer to one attempt: no answer in time, or a response
Answers ==
  [kind : {"exception"}, error : {"Timeout"}]
    \cup [kind : {"response"}, status : StatusForcelist, body : {[json |-> "invalid", items |-> <<>>]}]
    \cup [kind : {"response"}, status : {200, 404}, body : Bodies]

\* urllib3 retries the attempt: a timeout of an idempotent method, or a
\* status of the forcelist
IsRetryable(answer) ==
  IF answer.kind = "exception" THEN TRUE ELSE answer.status \in StatusForcelist

MutExhaustedLate(total) == total < 0 - 1

\* Retry.is_exhausted, on the counter that Retry.increment has decremented
IsExhausted(total) == total < 0

\* what session.get ends with when the retries are exhausted on `answer`:
\* MaxRetryError, which requests raises as RetryError or ConnectionError
ExhaustedError(answer) ==
  [kind |-> "exception",
   error |-> IF answer.kind = "response" THEN "RetryError" ELSE "ConnectionError"]

\* fetch_occupancy is called: session.get starts with the mounted Retry
FetchCall ==
  /\ fpc = "idle"
  /\ fpc' = "sending"
  /\ retries' = RetryTotal
  /\ attempts' = <<>>
  /\ UNCHANGED <<foutcome, scrapeVars, csvVars, jsonVars, mainVars, regVars>>

\* an attempt fails in a way urllib3 retries, and retries are left
AttemptRetried ==
  /\ fpc = "sending"
  /\ \E answer \in Answers :
       /\ IsRetryable(answer)
       /\ ~IsExhausted(retries - 1)
       /\ attempts' = Append(attempts, answer)
  /\ retries' = retries - 1
  /\ UNCHANGED <<fpc, foutcome, scrapeVars, csvVars, jsonVars, mainVars, regVars>>

\* an attempt fails in a way urllib3 retries, and no retry is left:
\* session.get raises and fetch_occupancy handles the exception
AttemptExhausted ==
  /\ fpc = "sending"
  /\ \E answer \in Answers :
       /\ IsRetryable(answer)
       /\ IsExhausted(retries - 1)
       /\ attempts' = Append(attempts, answer)
       /\ foutcome' = FetchOutcome(ExhaustedError(answer))
  /\ retries' = retries - 1
  /\ fpc' = "returned"
  /\ UNCHANGED <<scrapeVars, csvVars, jsonVars, mainVars, regVars>>

\* an attempt is answered with a response urllib3 does not retry:
\* session.get returns it and fetch_occupancy reads it
AttemptAnswered ==
  /\ fpc = "sending"
  /\ \E answer \in Answers :
       /\ ~IsRetryable(answer)
       /\ attempts' = Append(attempts, answer)
       /\ foutcome' = FetchOutcome(answer)
  /\ fpc' = "returned"
  /\ UNCHANGED <<retries, scrapeVars, csvVars, jsonVars, mainVars, regVars>>

InitFetch ==
  /\ facilities = <<>>
  /\ ScrapeIdle
  /\ FetchIdle
  /\ CsvIdle
  /\ JsonIdle
  /\ MainIdle
  /\ RegIdle

NextFetch ==
  \/ FetchCall
  \/ AttemptRetried
  \/ AttemptExhausted
  \/ AttemptAnswered

SpecFetch == InitFetch /\ [][NextFetch]_vars

\* DataStorage.save_to_csv, from the existence check to the close of the file
SaveToCsv ==
  /\ saves < MaxSaves
  /\ \E batch \in Batches(CsvSamples, MaxBatch) :
       /\ csv_file' = [exists |-> TRUE,
                       text |-> csv_file.text \o CsvAppended(csv_file.exists, batch)]
       /\ written' = written \o batch
  /\ saves' = saves + 1
  /\ UNCHANGED <<csv_start, loaded, cpc, cexists, cbatch, jsonVars, scrapeVars, fetchVars, mainVars, regVars>>

\* DataStorage.load_from_csv is called, once, between the saves or after them
LoadFromCsv ==
  /\ ~loaded.called
  /\ loaded' = [called |-> TRUE, saves |-> saves, of |-> written,
                rows |-> load_from_csv(csv_file)]
  /\ UNCHANGED <<csv_file, csv_start, written, saves, cpc, cexists, cbatch,
                 jsonVars, scrapeVars, fetchVars, mainVars, regVars>>

InitCsv ==
  /\ facilities = <<>>
  /\ ScrapeIdle
  /\ FetchIdle
  /\ JsonIdle
  /\ MainIdle
  /\ RegIdle
  /\ csv_start \in {"absent", "empty", "written"}
  /\ csv_file = StartFile(csv_start)
  /\ written = <<>>
  /\ saves = 0
  /\ loaded = NotLoaded
  /\ WritersIdle

NextCsv ==
  \/ SaveToCsv
  \/ LoadFromCsv

SpecCsv == InitCsv /\ [][NextCsv]_vars

\* ----------------------------------------- save_to_csv in two processes
\* `file_exists = filepath.exists()` in process p, called with a batch
CsvCheckExists(p) ==
  /\ cpc[p] = "idle"
  /\ \E batch \in Batches(CsvSamples, MaxBatch) : cbatch' = [cbatch EXCEPT ![p] = batch]
  /\ cexists' = [cexists EXCEPT ![p] = csv_file.exists]
  /\ cpc' = [cpc EXCEPT ![p] = "checked"]
  /\ UNCHANGED <<csv_file, csv_start, written, saves, loaded, jsonVars, scrapeVars,
                 fetchVars, mainVars, regVars>>

\* open(filepath, 'a') in process p: the file is created when it is absent
CsvOpen(p) ==
  /\ cpc[p] = "checked"
  /\ csv_file' = [csv_file EXCEPT !.exists = TRUE]
  /\ cpc' = [cpc EXCEPT ![p] = "opened"]
  /\ UNCHANGED <<csv_start, written, saves, loaded, cexists, cbatch, jsonVars,
                 scrapeVars, fetchVars, mainVars, regVars>>

\* the writes of process p and the end of its `with` block: the header and
\* the rows stay in the file object's buffer until the close, which appends
\* them to the file in one write
CsvWriteClose(p) ==
  /\ cpc[p] = "opened"
  /\ csv_file' = [csv_file EXCEPT
                    !.text = csv_file.text \o CsvAppended(cexists[p], cbatch[p])]
  /\ cpc' = [cpc EXCEPT ![p] = "closed"]
  /\ UNCHANGED <<csv_start, written, saves, loaded, cexists, cbatch, jsonVars,
                 scrapeVars, fetchVars, mainVars, regVars>>

InitCsvConc ==
  /\ facilities = <<>>
  /\ ScrapeIdle
  /\ FetchIdle
  /\ JsonIdle
  /\ MainIdle
  /\ RegIdle
  /\ csv_start \in {"absent", "written"}
  /\ csv_file = StartFile(csv_start)
  /\ written = <<>>
  /\ saves = 0
  /\ loaded = NotLoaded
  /\ WritersIdle

NextCsvConc ==
  \E p \in Writers :
    \/ CsvCheckExists(p)
    \/ CsvOpen(p)
    \/ CsvWriteClose(p)

SpecCsvConc == InitCsvConc /\ [][NextCsvConc]_vars

\* the entries of the document that reached the file when json.dump raised
\* at a value of scrape_metadata: the mapping is written entry by entry
PartialDocument(scrape_time) == (ScrapeTimestampKey :> IsoFormat(scrape_time))

\* a `metadata` argument with a value json.dump cannot serialize
UnserializableArgs == {(MethodKey :> [unserializable |-> TRUE])}

\* DataStorage.save_to_json of the caller's batch, without a filename: the
\* clock is read for the file name and again for scrape_time; the file is
\* opened with 'w' and the document dumped into it
SaveToJson ==
  /\ Len(json_log) < MaxJsonSaves
  /\ \E metadata \in MetadataArgs, elapsed \in {0, 1} :
       LET filename == JsonFilename(now)
           files == Update(json_files,
                           (filename :> JsonDocument(pool_data, now + elapsed, metadata)))
       IN  /\ json_files' = files
           /\ json_last' = [called |-> TRUE, batch |-> pool_data, filename |-> filename,
                            call |-> Len(json_log) + 1]
           /\ json_log' = Append(json_log, [filename |-> filename, failed |-> FALSE,
                                            before |-> json_files, after |-> files])
           /\ now' = now + elapsed
  /\ UNCHANGED <<facilities, config_file, pc, timestamp, pool_data, active_facilities,
                 idx, fetched, sleeps>>
  /\ UNCHANGED <<fetchVars, csvVars, mainVars, regVars>>

\* DataStorage.save_to_json raises: json.dump meets a value it cannot
\* serialize after open(filepath, 'w') has emptied or created the file; the
\* two clock reads of the call fall into the same second
SaveToJsonFails ==
  /\ Len(json_log) < MaxJsonSaves
  /\ \E metadata \in UnserializableArgs :
       LET filename == JsonFilename(now)
           files == Update(json_files, (filename :> PartialDocument(now)))
       IN  /\ json_files' = files
           /\ json_log' = Append(json_log, [filename |-> filename, failed |-> TRUE,
                                            before |-> json_files, after |-> files])
  /\ UNCHANGED <<facilities, config_file, now, pc, timestamp, pool_data, active_facilities,
                 idx, fetched, sleeps, json_last>>
  /\ UNCHANGED <<fetchVars, csvVars, mainVars, regVars>>

\* a caller that holds a batch and a storage that has written nothing
InitJson ==
  /\ facilities = <<>>
  /\ config_file = [exists |-> FALSE, entries |-> <<>>]
  /\ now = 0
  /\ pc = "idle"
  /\ timestamp = None
  /\ pool_data \in Batches(JsonSamples, MaxJsonBatch)
  /\ active_facilities = <<>>
  /\ idx = 1
  /\ fetched = <<>>
  /\ sleeps = 0
  /\ FetchIdle
  /\ CsvIdle
  /\ JsonIdle
  /\ MainIdle
  /\ RegIdle

NextJson ==
  \/ SaveToJson
  \/ SaveToJsonFails

SpecJson == InitJson /\ [][NextJson]_vars

\* ------------------------------------------------- the scrape command
\* --format
Formats == {"csv", "json", "both"}

MutCsvOnly(fmt) == fmt = "csv"

\* `if args.format in ["csv", "both"]`
SavesCsv(fmt) == fmt \in {"csv", "both"}

\* `if args.format in ["json", "both"]`
SavesJson(fmt) == fmt \in {"json", "both"}

MutCloseOnSuccessOnly(s, raised) ==
  [session |-> IF raised THEN s ELSE "closed", suppressed |-> FALSE]

\* ManagedAPIScraper.__exit__: the session is closed; the method returns
\* None, so an exception of the body is not suppressed
ManagedExit(s, raised) == [session |-> "closed", suppressed |-> FALSE]

\* the payloads the upstream answers the scrape command with
MainPayloads ==
  {[personCount |-> 1, maxPersonCount |-> 2],
   [personCount |-> 0, maxPersonCount |-> 0],
   [personCount |-> 1, maxPersonCount |-> None]}

\* the registry files the scrape command may find: written by save, all
\* entries active or the last one deactivated
MainConfigFiles ==
  {SavedFile([i \in 1..NumFacilities |->
                Facility(i, cap, IF i = NumFacilities THEN act ELSE TRUE)]) :
     cap \in {None, 2}, act \in BOOLEAN}

\* main up to the entry of the with block: parse_args, DataStorage(), and
\* ManagedAPIScraper(), which loads the registry and creates the session
MainStart ==
  /\ mpc = "start"
  /\ \E fmt \in Formats : format' = fmt
  /\ facilities' = LoadRegistry(config_file, now)
  /\ session' = "open"
  /\ mpc' = "in_with"
  /\ UNCHANGED <<config_file, now, pc, timestamp, pool_data, active_facilities, idx,
                 fetched, sleeps, exit_code>>
  /\ UNCHANGED <<fetchVars, csvVars, jsonVars, regVars>>

\* `pool_data = scraper.scrape_pool_data()`: entry of the call
MainBeginCycle ==
  /\ mpc = "in_with"
  /\ BeginCycle

\* one iteration of the loop of the call, on an answer of the upstream
MainStepNoData ==
  /\ mpc = "in_with"
  /\ StepNoData

MainStepRecord ==
  /\ mpc = "in_with"
  /\ StepRecord
  /\ fetched'[Len(fetched')][2] \in MainPayloads

MainStepSaveFails ==
  /\ mpc = "in_with"
  /\ StepSaveFails
  /\ fetched'[Len(fetched')][2] \in MainPayloads

MainStepMalformed ==
  /\ mpc = "in_with"
  /\ StepMalformed
  /\ fetched'[Len(fetched')][2] \in MainPayloads

\* the with block ends, because the call returned or because it raised:
\* __exit__ runs; an exception that is not suppressed reaches
\* `except Exception`, and main returns 1
MainExitWith ==
  /\ mpc = "in_with"
  /\ pc \in {"done", "raised"}
  /\ LET exit == ManagedExit(session, pc = "raised")
     IN  /\ session' = exit.session
         /\ IF pc = "raised" /\ ~exit.suppressed
            THEN mpc' = "exited" /\ exit_code' = 1
            ELSE mpc' = "after_with" /\ UNCHANGED exit_code
  /\ UNCHANGED <<format, scrapeVars, fetchVars, csvVars, jsonVars, regVars>>

\* `if not pool_data: return 1`
MutNeverEmpty(batch) == FALSE

\* `if not pool_data`
NoPoolData(batch) == batch = <<>>

MainNoData ==
  /\ mpc = "after_with"
  /\ NoPoolData(pool_data)
  /\ mpc' = "exited"
  /\ exit_code' = 1
  /\ UNCHANGED <<format, session, scrapeVars, fetchVars, csvVars, jsonVars, regVars>>

\* the batch is not empty: it is saved in the formats asked for, with the
\* duration and the method as metadata, and main returns 0
MainPersist ==
  /\ mpc = "after_with"
  /\ ~NoPoolData(pool_data)
  /\ IF SavesCsv(format)
     THEN /\ csv_file' = [exists |-> TRUE,
                          text |-> csv_file.text \o CsvAppended(csv_file.exists, pool_data)]
          /\ written' = written \o pool_data
          /\ saves' = saves + 1
     ELSE UNCHANGED <<csv_file, written, saves>>
  /\ IF SavesJson(format)
     THEN \E elapsed \in {0, 1} :
            LET filename == JsonFilename(now)
                files == Update(json_files,
                                (filename :> JsonDocument(pool_data, now + elapsed, CliMetadata)))
            IN  /\ json_files' = files
                /\ json_last' = [called |-> TRUE, batch |-> pool_data,
                                 filename |-> filename, call |-> Len(json_log) + 1]
                /\ json_log' = Append(json_log, [filename |-> filename, failed |-> FALSE,
                                                 before |-> json_files, after |-> files])
                /\ now' = now + elapsed
     ELSE UNCHANGED <<jsonVars, now>>
  /\ mpc' = "exited"
  /\ exit_code' = 0
  /\ UNCHANGED <<facilities, config_file, pc, timestamp, pool_data, active_facilities,
                 idx, fetched, sleeps>>
  /\ UNCHANGED <<format, session, csv_start, loaded, cpc, cexists, cbatch, fetchVars, regVars>>

\* a run of the scrape command: the registry file is absent or was saved
\* by an earlier run, the CSV file of the day is absent or holds rows
InitMain ==
  /\ facilities = <<>>
  /\ config_file \in {[exists |-> FALSE, entries |-> <<>>]} \cup MainConfigFiles
  /\ now = 0
  /\ pc = "idle"
  /\ timestamp = None
  /\ pool_data = <<>>
  /\ active_facilities = <<>>
  /\ idx = 1
  /\ fetched = <<>>
  /\ sleeps = 0
  /\ FetchIdle
  /\ csv_start \in {"absent", "written"}
  /\ csv_file = StartFile(csv_start)
  /\ written = <<>>
  /\ saves = 0
  /\ loaded = NotLoaded
  /\ WritersIdle
  /\ JsonIdle
  /\ MainIdle
  /\ RegIdle

NextMain ==
  \/ MainStart
  \/ MainBeginCycle
  \/ MainStepNoData
  \/ MainStepRecord
  \/ MainStepSaveFails
  \/ MainStepMalformed
  \/ MainExitWith
  \/ MainNoData
  \/ MainPersist

SpecMain == InitMain /\ [][NextMain]_vars

\* ------------------------------------------------------ FacilityRegistry
\* the registry files a process may find: written by save, or by hand with
\* two entries of one name and type, or with two entries of one id
RegistryFiles ==
  {SavedFile(<<Facility(1, 2, TRUE)>>),
   SavedFile(<<Facility(1, 2, TRUE), Facility(2, None, FALSE)>>),
   SavedFile(<<Facility(1, 2, TRUE), Facility(5, None, TRUE)>>),
   SavedFile(<<Facility(1, None, TRUE), Facility(1, 2, FALSE)>>)}

\* the ids the operations are called with: in the files, in the defaults,
\* or in neither
ArgIds == {OrgIds[1], OrgIds[2], OrgIds[3], Facility(5, None, TRUE).org_id, 1}

\* the facilities handed to add_facility: freshly built, as its callers do
NewFacilities ==
  {[Facility(i, cap, TRUE) EXCEPT !.facility_type = UNKNOWN] : i \in {1, 2}, cap \in {None, 1}}

\* FacilityRegistry(config_path): a process constructs its registry
RegLoad ==
  /\ facilities' = LoadRegistry(config_file, now)
  /\ reg_last' = [op |-> "load", before |-> facilities, file_before |-> config_file]
  /\ UNCHANGED <<config_file, now, pc, timestamp, pool_data, active_facilities, idx,
                 fetched, sleeps>>
  /\ UNCHANGED <<fetchVars, csvVars, jsonVars, mainVars>>

\* registry.add_facility(facility, auto_discovered)
RegAddFacility ==
  /\ reg_last # NotCalled
  /\ \E facility \in NewFacilities, auto_discovered \in BOOLEAN :
       LET call == add_facility(facilities, facility, auto_discovered, now)
       IN  /\ facilities' = call.facilities
           /\ config_file' = IF call.saved THEN SavedFile(call.facilities) ELSE config_file
           /\ reg_last' = [op |-> "add_facility", arg |-> facility, raised |-> call.raised,
                           before |-> facilities, file_before |-> config_file]
  /\ UNCHANGED <<now, pc, timestamp, pool_data, active_facilities, idx, fetched, sleeps>>
  /\ UNCHANGED <<fetchVars, csvVars, jsonVars, mainVars>>

\* registry.mark_inactive(org_id): the entry is changed and the registry
\* saved when the id is in the registry
RegMarkInactive ==
  /\ reg_last # NotCalled
  /\ \E org_id \in ArgIds :
       /\ facilities' = IF HasId(facilities, org_id) THEN mark_inactive(facilities, org_id)
                        ELSE facilities
       /\ config_file' = IF HasId(facilities, org_id) THEN SavedFile(facilities')
                         ELSE config_file
       /\ reg_last' = [op |-> "mark_inactive", arg |-> org_id, raised |-> FALSE,
                       before |-> facilities, file_before |-> config_file]
  /\ UNCHANGED <<now, pc, timestamp, pool_data, active_facilities, idx, fetched, sleeps>>
  /\ UNCHANGED <<fetchVars, csvVars, jsonVars, mainVars>>

\* the part of an iteration of scrape_pool_data that changes the registry:
\* the capacity of an active facility is replaced by the one fetched, and
\* the registry saved
RegCapacityUpdate ==
  /\ reg_last # NotCalled
  /\ \E pos \in 1..Len(facilities), max_count \in {1, 2} :
       /\ facilities[pos].active
       /\ CapacityChanged(facilities[pos], [personCount |-> 0, maxPersonCount |-> max_count])
       /\ facilities' = [facilities EXCEPT ![pos].max_capacity = max_count,
                                           ![pos].last_seen = now]
       /\ config_file' = SavedFile(facilities')
       /\ reg_last' = [op |-> "capacity_update", arg |-> facilities[pos].org_id,
                       raised |-> FALSE, before |-> facilities, file_before |-> config_file]
  /\ UNCHANGED <<now, pc, timestamp, pool_data, active_facilities, idx, fetched, sleeps>>
  /\ UNCHANGED <<fetchVars, csvVars, jsonVars, mainVars>>

\* FacilityDiscovery(registry).check_for_changes()
\* the ids of the registry's entries
RegisteredIds(fs) == {fs[i].org_id : i \in 1..Len(fs)}

\* FacilityDiscovery.check_for_changes; `probes` is what the provider answers
\* for an id during the check, `unasked` its answers for the registered ids
\* that the check does not probe
RegCheckForChanges ==
  /\ reg_last # NotCalled
  /\ \E probes \in [DiscoveredIds \cup RegisteredIds(facilities) -> ProbeResults] :
       LET call == check_for_changes(facilities, probes)
       IN  /\ facilities' = call.facilities
           /\ config_file' = IF call.saved THEN SavedFile(call.facilities) ELSE config_file
           /\ reg_last' = [op |-> "check_for_changes", arg |-> 0, raised |-> call.raised,
                           before |-> facilities, file_before |-> config_file,
                           unasked |-> [id \in RegisteredIds(facilities) \ DiscoveredIds
                                          |-> probes[id]]]
  /\ UNCHANGED <<now, pc, timestamp, pool_data, active_facilities, idx, fetched, sleeps>>
  /\ UNCHANGED <<fetchVars, csvVars, jsonVars, mainVars>>

\* no registry constructed yet; the file is absent or one of the files
InitRegistry ==
  /\ facilities = <<>>
  /\ config_file \in {[exists |-> FALSE, entries |-> <<>>]} \cup RegistryFiles
  /\ now = 0
  /\ pc = "idle"
  /\ timestamp = None
  /\ pool_data = <<>>
  /\ active_facilities = <<>>
  /\ idx = 1
  /\ fetched = <<>>
  /\ sleeps = 0
  /\ FetchIdle
  /\ CsvIdle
  /\ JsonIdle
  /\ MainIdle
  /\ RegIdle

NextRegistry ==
  \/ RegLoad
  \/ RegAddFacility
  \/ RegMarkInactive
  \/ RegCapacityUpdate
  \/ RegCheckForChanges

SpecRegistry == InitRegistry /\ [][NextRegistry]_vars

\* ---------------------------------------------------------- the lookups
\* the names the lookups are called with: mapped ones and one that is not
LookupNames == {Nordbad, Westbad, <<"N", "o", "n", "e">>}

LookupTypes == {POOL, SAUNA, ICE_RINK}

\* registry.get_facility(org_id)
LookupGetFacility ==
  /\ reg_last # NotCalled
  /\ \E org_id \in ArgIds :
       reg_last' = [op |-> "get_facility", arg |-> org_id,
                    result |-> get_facility(facilities, org_id)]
  /\ UNCHANGED <<scrapeVars, fetchVars, csvVars, jsonVars, mainVars>>

\* get_org_id(name, facility_type)
LookupGetOrgId ==
  /\ reg_last # NotCalled
  /\ \E name \in LookupNames, facility_type \in LookupTypes :
       reg_last' = [op |-> "get_org_id", arg |-> <<name, facility_type>>,
                    result |-> get_org_id(name, facility_type)]
  /\ UNCHANGED <<scrapeVars, fetchVars, csvVars, jsonVars, mainVars>>

\* require_id(name, facility_type)
LookupRequireId ==
  /\ reg_last # NotCalled
  /\ \E name \in LookupNames, facility_type \in LookupTypes :
       reg_last' = [op |-> "require_id", arg |-> <<name, facility_type>>,
                    result |-> require_id(name, facility_type)]
  /\ UNCHANGED <<scrapeVars, fetchVars, csvVars, jsonVars, mainVars>>

NextLookup ==
  \/ RegLoad
  \/ LookupGetFacility
  \/ LookupGetOrgId
  \/ LookupRequireId

SpecLookup == InitRegistry /\ [][NextLookup]_vars

\* ------------------------------------------- the tables, entry by entry
\* FACILITIES, every entry: name, type, org_id (ue for u-umlaut)
AllFacilities ==
  {[name |-> <<"B", "a", "d", " ", "G", "i", "e", "s", "i", "n", "g", "-", "H", "a", "r", "l", "a", "c", "h", "i", "n", "g">>,
    facility_type |-> POOL, org_id |-> 30195],
   [name |-> <<"C", "o", "s", "i", "m", "a", "w", "e", "l", "l", "e", "n", "b", "a", "d">>,
    facility_type |-> POOL, org_id |-> 30190],
   [name |-> <<"D", "a", "n", "t", "e", "-", "W", "i", "n", "t", "e", "r", "-", "W", "a", "r", "m", "f", "r", "e", "i", "b", "a", "d">>,
    facility_type |-> POOL, org_id |-> 129],
   [name |-> <<"M", "i", "c", "h", "a", "e", "l", "i", "b", "a", "d">>,
    facility_type |-> POOL, org_id |-> 30208],
   [name |-> <<"M", "u", "e", "l", "l", "e", "r", "'", "s", "c", "h", "e", "s", " ", "V", "o", "l", "k", "s", "b", "a", "d">>,
    facility_type |-> POOL, org_id |-> 30197],
   [name |-> <<"N", "o", "r", "d", "b", "a", "d">>,
    facility_type |-> POOL, org_id |-> 30184],
   [name |-> <<"O", "l", "y", "m", "p", "i", "a", "-", "S", "c", "h", "w", "i", "m", "m", "h", "a", "l", "l", "e">>,
    facility_type |-> POOL, org_id |-> 30182],
   [name |-> <<"S", "u", "e", "d", "b", "a", "d">>,
    facility_type |-> POOL, org_id |-> 30187],
   [name |-> <<"W", "e", "s", "t", "b", "a", "d">>,
    facility_type |-> POOL, org_id |-> 30199],
   [name |-> <<"C", "o", "s", "i", "m", "a", "w", "e", "l", "l", "e", "n", "b", "a", "d">>,
    facility_type |-> SAUNA, org_id |-> 30191],
   [name |-> <<"D", "a", "n", "t", "e", "b", "a", "d">>,
    facility_type |-> SAUNA, org_id |-> 30200],
   [name |-> <<"M", "i", "c", "h", "a", "e", "l", "i", "b", "a", "d">>,
    facility_type |-> SAUNA, org_id |-> 30203],
   [name |-> <<"M", "u", "e", "l", "l", "e", "r", "'", "s", "c", "h", "e", "s", " ", "V", "o", "l", "k", "s", "b", "a", "d">>,
    facility_type |-> SAUNA, org_id |-> 30204],
   [name |-> <<"N", "o", "r", "d", "b", "a", "d">>,
    facility_type |-> SAUNA, org_id |-> 30185],
   [name |-> <<"S", "u", "e", "d", "b", "a", "d">>,
    facility_type |-> SAUNA, org_id |-> 30188],
   [name |-> <<"W", "e", "s", "t", "b", "a", "d">>,
    facility_type |-> SAUNA, org_id |-> 30207],
   [name |-> <<"P", "r", "i", "n", "z", "r", "e", "g", "e", "n", "t", "e", "n", "s", "t", "a", "d", "i", "o", "n", " ", "-", " ", "E", "i", "s", "l", "a", "u", "f", "b", "a", "h", "n">>,
    facility_type |-> ICE_RINK, org_id |-> 30356]}

\* the list `defaults` of _load_defaults, every entry: org_id, name, type
AllDefaults ==
  <<[org_id |-> 30195, name |-> <<"B", "a", "d", " ", "G", "i", "e", "s", "i", "n", "g", "-", "H", "a", "r", "l", "a", "c", "h", "i", "n", "g">>,
     facility_type |-> POOL],
    [org_id |-> 30190, name |-> <<"C", "o", "s", "i", "m", "a", "w", "e", "l", "l", "e", "n", "b", "a", "d">>,
     facility_type |-> POOL],
    [org_id |-> 30208, name |-> <<"M", "i", "c", "h", "a", "e", "l", "i", "b", "a", "d">>,
     facility_type |-> POOL],
    [org_id |-> 30197, name |-> <<"N", "o", "r", "d", "b", "a", "d">>,
     facility_type |-> POOL],
    [org_id |-> 30184, name |-> <<"S", "u", "e", "d", "b", "a", "d">>,
     facility_type |-> POOL],
    [org_id |-> 30187, name |-> <<"W", "e", "s", "t", "b", "a", "d">>,
     facility_type |-> POOL],
    [org_id |-> 30199, name |-> <<"M", "u", "e", "l", "l", "e", "r", "'", "s", "c", "h", "e", "s", " ", "V", "o", "l", "k", "s", "b", "a", "d">>,
     facility_type |-> POOL],
    [org_id |-> 30191, name |-> <<"C", "o", "s", "i", "m", "a", "w", "e", "l", "l", "e", "n", "b", "a", "d", " ", "S", "a", "u", "n", "a">>,
     facility_type |-> SAUNA],
    [org_id |-> 30200, name |-> <<"D", "a", "n", "t", "e", "b", "a", "d", " ", "S", "a", "u", "n", "a">>,
     facility_type |-> SAUNA],
    [org_id |-> 30203, name |-> <<"M", "i", "c", "h", "a", "e", "l", "i", "b", "a", "d", " ", "S", "a", "u", "n", "a">>,
     facility_type |-> SAUNA],
    [org_id |-> 30185, name |-> <<"N", "o", "r", "d", "b", "a", "d", " ", "S", "a", "u", "n", "a">>,
     facility_type |-> SAUNA],
    [org_id |-> 30188, name |-> <<"S", "u", "e", "d", "b", "a", "d", " ", "S", "a", "u", "n", "a">>,
     facility_type |-> SAUNA],
    [org_id |-> 30207, name |-> <<"W", "e", "s", "t", "b", "a", "d", " ", "S", "a", "u", "n", "a">>,
     facility_type |-> SAUNA]>>

\* FacilityRegistry._load_defaults at the clock value, every entry
LoadAllDefaults(clock) ==
  [k \in 1..Len(AllDefaults) |->
     [org_id |-> AllDefaults[k].org_id,
      name |-> AllDefaults[k].name,
      facility_type |-> AllDefaults[k].facility_type,
      max_capacity |-> None,
      last_seen |-> None,
      first_seen |-> clock,
      active |-> TRUE,
      auto_discovered |-> FALSE]]

\* SWMAPIScraper(): the registry is constructed, and no file is there
DefaultsConstruct ==
  /\ reg_last = NotCalled
  /\ ~config_file.exists
  /\ facilities' = LoadAllDefaults(now)
  /\ reg_last' = [op |-> "load_defaults", before |-> facilities, file_before |-> config_file]
  /\ UNCHANGED <<config_file, now, pc, timestamp, pool_data, active_facilities, idx,
                 fetched, sleeps>>
  /\ UNCHANGED <<fetchVars, csvVars, jsonVars, mainVars>>

\* registry.mark_inactive(org_id) on the registry of the defaults, for the
\* first facility that the provider no longer answers for
DefaultsMarkInactive ==
  /\ reg_last # NotCalled
  /\ \A p \in 1..Len(facilities) : facilities[p].active
  /\ \E e \in AllFacilities :
       /\ facilities' = IF HasId(facilities, e.org_id) THEN mark_inactive(facilities, e.org_id)
                        ELSE facilities
       /\ config_file' = IF HasId(facilities, e.org_id) THEN SavedFile(facilities')
                         ELSE config_file
       /\ reg_last' = [op |-> "mark_inactive", arg |-> e.org_id, raised |-> FALSE,
                       before |-> facilities, file_before |-> config_file]
  /\ UNCHANGED <<now, pc, timestamp, pool_data, active_facilities, idx, fetched, sleeps>>
  /\ UNCHANGED <<fetchVars, csvVars, jsonVars, mainVars>>

\* registry.get_facility(org_id) for an id of FACILITIES
DefaultsGetFacility ==
  /\ reg_last # NotCalled
  /\ \E e \in AllFacilities :
       reg_last' = [op |-> "get_facility", arg |-> e.org_id,
                    result |-> get_facility(facilities, e.org_id)]
  /\ UNCHANGED <<scrapeVars, fetchVars, csvVars, jsonVars, mainVars>>

InitDefaults ==
  /\ facilities = <<>>
  /\ ScrapeIdle
  /\ FetchIdle
  /\ CsvIdle
  /\ JsonIdle
  /\ MainIdle
  /\ RegIdle

NextDefaults ==
  \/ DefaultsConstruct
  \/ DefaultsMarkInactive
  \/ DefaultsGetFacility

SpecDefaults == InitDefaults /\ [][NextDefaults]_vars

\* ------------------------------ save_to_json with colliding metadata
\* `metadata` arguments with a key that scrape_metadata has computed
CollidingArgs ==
  {(TotalFacilitiesKey :> 0), (CountKey(POOL) :> 0) @@ (MethodKey :> <<"a", "p", "i">>)}

\* DataStorage.save_to_json of the caller's batch with such an argument
SaveToJsonColliding ==
  /\ Len(json_log) < MaxJsonSaves
  /\ \E metadata \in CollidingArgs :
       LET filename == JsonFilename(now)
           files == Update(json_files,
                           (filename :> JsonDocument(pool_data, now, metadata)))
       IN  /\ json_files' = files
           /\ json_last' = [called |-> TRUE, batch |-> pool_data, filename |-> filename,
                            call |-> Len(json_log) + 1]
           /\ json_log' = Append(json_log, [filename |-> filename, failed |-> FALSE,
                                            before |-> json_files, after |-> files])
  /\ UNCHANGED <<facilities, config_file, now, pc, timestamp, pool_data, active_facilities,
                 idx, fetched, sleeps>>
  /\ UNCHANGED <<fetchVars, csvVars, mainVars, regVars>>

NextJsonMeta == SaveToJsonColliding

SpecJsonMeta == InitJson /\ [][NextJsonMeta]_vars

\* ---------------------------------------------------------- json_to_csv
\* the characters of a snapshot's path, in the order of their code points
PathChars ==
  <<".", "0", "1", "2", "3", "4", "5", "6", "7", "8", "9", "_",
    "a", "d", "j", "l", "n", "o", "p", "s", "t">>

Ord(c) == CHOOSE i \in 1..Len(PathChars) : PathChars[i] = c

RECURSIVE PathLess(_, _)
\* `<` of two paths, as sorted() compares them
PathLess(a, b) ==
  IF b = <<>> THEN FALSE
  ELSE IF a = <<>> THEN TRUE
  ELSE IF Head(a) # Head(b) THEN Ord(Head(a)) < Ord(Head(b))
  ELSE PathLess(Tail(a), Tail(b))

RECURSIVE Sorted(_)
\* sorted(json_files)
Sorted(paths) ==
  IF paths = {} THEN <<>>
  ELSE LET first == CHOOSE x \in paths : \A y \in paths \ {x} : PathLess(x, y)
       IN  <<first>> \o Sorted(paths \ {first})

\* load_json_file: json.load raises on a text that ends before its document
Readable(document) == SummaryKey \in DOMAIN document

\* data.get(key, [])
GetList(data, key) == IF key \in DOMAIN data THEN data[key] ELSE <<>>

\* json_to_pool_occupancy
json_to_pool_occupancy(item) ==
  [pool_name |-> item.pool_name,
   occupancy_level |-> item.occupancy_level,
   timestamp |-> FromIsoFormat(item.timestamp),
   raw_occupancy |-> item.raw_occupancy,
   facility_type |-> item.facility_type]

\* the body of the `try`: the records of data['pools'], then those of
\* data['saunas']
ConvertedRecords(data) ==
  LET items == GetList(data, <<"p", "o", "o", "l", "s">>)
                 \o GetList(data, <<"s", "a", "u", "n", "a", "s">>)
  IN  [k \in 1..Len(items) |-> json_to_pool_occupancy(items[k])]

RECURSIVE ConvertFiles(_, _)
\* `for json_file in sorted(json_files)`: a file that cannot be loaded is
\* skipped by the `except`
ConvertFiles(paths, files) ==
  IF paths = <<>> THEN <<>>
  ELSE (IF Readable(files[Head(paths)]) THEN ConvertedRecords(files[Head(paths)]) ELSE <<>>)
         \o ConvertFiles(Tail(paths), files)

\* a record of the ice rink
IceRinkRecord ==
  [SampleRecords[1] EXCEPT !.facility_type = ICE_RINK, !.pool_name = <<"E", "i", "s">>]

\* the records of the scrapes whose snapshots are converted
ConvertSamples == {SampleRecords[1], SampleRecords[2], IceRinkRecord}

\* convert_json_files_to_csv(json_files, output_csv) on the snapshots of the
\* data directory
ConvertJsonFilesToCsv ==
  /\ ~csv_file.exists
  /\ LET records == ConvertFiles(Sorted(DOMAIN json_files), json_files)
     IN  /\ csv_file' = [exists |-> TRUE, text |-> HeaderLine \o WriteRows(records)]
         /\ written' = records
  /\ UNCHANGED <<csv_start, saves, loaded, cpc, cexists, cbatch>>
  /\ UNCHANGED <<scrapeVars, fetchVars, jsonVars, mainVars, regVars>>

\* the scrapes that save their batch before the conversion is run
SaveBeforeConvert == ~csv_file.exists /\ (SaveToJson \/ SaveToJsonFails)

InitConvert ==
  /\ facilities = <<>>
  /\ config_file = [exists |-> FALSE, entries |-> <<>>]
  /\ now = 0
  /\ pc = "idle"
  /\ timestamp = None
  /\ pool_data \in Batches(ConvertSamples, MaxBatch)
  /\ active_facilities = <<>>
  /\ idx = 1
  /\ fetched = <<>>
  /\ sleeps = 0
  /\ FetchIdle
  /\ CsvIdle
  /\ JsonIdle
  /\ MainIdle
  /\ RegIdle

NextConvert == SaveBeforeConvert \/ ConvertJsonFilesToCsv

SpecConvert == InitConvert /\ [][NextConvert]_vars

\* =============================================================== claims
\* positions of the fetches of the cycle that returned data
DataFetches == {j \in 1..Len(fetched) : fetched[j][2] # NoData}

\* the fetches of the cycle that returned data, in order
DataFetchSeq == SelectSeq(fetched, LAMBDA e : e[2] # NoData)

\* the records of the batch that name the facility
RecordsNaming(facility) ==
  {k \in 1..Len(pool_data) : /\ pool_data[k].pool_name = facility.name
                             /\ pool_data[k].facility_type = facility.facility_type}

\* C1: the batch scrape_pool_data returns holds exactly one record for each
\* active facility whose fetch returned data and none for a facility whose
\* fetch returned no data; its length is the number of facilities that
\* returned data.
C1_BatchIsFacilitiesWithData ==
  pc = "done" =>
    /\ Len(fetched) = Len(active_facilities)
    /\ \A j \in 1..Len(active_facilities) :
         LET facility == facilities[active_facilities[j]]
         IN  /\ fetched[j][1] = facility.org_id
             /\ Cardinality(RecordsNaming(facility)) = IF j \in DataFetches THEN 1 ELSE 0
    /\ Len(pool_data) = Cardinality(DataFetches)

\* C1 witness: a returned batch with a record for one facility and none for
\* another whose fetch returned no data
C1_Witness ==
  /\ pc = "done"
  /\ Len(pool_data) >= 1
  /\ Len(pool_data) < Len(active_facilities)

\* C2: in one cycle the fetcher is invoked exactly once for every facility
\* active in the snapshot and never for an inactive one, whatever happened to
\* the facilities processed earlier: no facility's failure aborts the cycle.
C2_EveryActiveFetchedOnce ==
  pc \in {"done", "raised"} =>
    /\ \A j \in 1..Len(active_facilities) :
         Cardinality({k \in 1..Len(fetched) :
                        fetched[k][1] = facilities[active_facilities[j]].org_id}) = 1
    /\ \A k \in 1..Len(fetched) :
         \E j \in 1..Len(active_facilities) :
           fetched[k][1] = facilities[active_facilities[j]].org_id

\* C3: every record of a batch carries the same timestamp, the clock value
\* captured before the first fetch of the cycle (the clock advances with
\* every fetch), not the time its own fetch completed.
C3_OneTimestampPerBatch ==
  \A k \in 1..Len(pool_data) :
    /\ pool_data[k].timestamp = pool_data[1].timestamp
    /\ pool_data[k].timestamp = now - Len(fetched)

\* C3 witness: a batch of two records, the second fetched later than the first
C3_Witness ==
  /\ pc = "done"
  /\ Len(pool_data) >= 2
  /\ now > pool_data[2].timestamp + 1

\* C4: for a payload with personCount = p >= 0 and maxPersonCount = m >= 0
\* the appended record's occupancy_percent, parsed from its own label, is
\* round((1 - p/m) * 100) when m > 0 and 0 when m = 0, and never None.
C4_ParsedPercentIsComputed ==
  \A k \in 1..Len(pool_data) :
    LET data == DataFetchSeq[k][2]
        p == data.personCount
        m == data.maxPersonCount
    IN  occupancy_percent_of(pool_data[k].occupancy_level)
          = IF m > 0 THEN PyRound(100 * (m - p), m) ELSE 0

\* the answer of the last attempt of the call
LastAnswer == attempts[Len(attempts)]

\* C5: fetch_occupancy never raises to its caller; it returns the first
\* element of a non-empty JSON array, and None for an empty array, a timeout,
\* an HTTP error status and exhausted retries.
C5_FetchReturnsFirstOrNone ==
  fpc = "returned" =>
    /\ ~foutcome.raised
    /\ IF LastAnswer.kind = "exception" THEN foutcome.value = NoData
       ELSE IF LastAnswer.status # 200 THEN foutcome.value = NoData
       ELSE IF LastAnswer.body.json = "array" /\ LastAnswer.body.items # <<>>
         THEN foutcome.value = LastAnswer.body.items[1]
       ELSE foutcome.value = NoData

\* C5 witness: calls that returned the first element, that ended on a
\* timeout after the retries, and that ended on an empty array
C5_Witness ==
  /\ fpc = "returned"
  /\ \/ foutcome.value # NoData
     \/ LastAnswer.kind = "exception"
     \/ (LastAnswer.kind = "response" /\ LastAnswer.status = 200
           /\ LastAnswer.body = [json |-> "array", items |-> <<>>])

\* every attempt of the call was answered with a status of the forcelist
AllForcelist ==
  \A i \in 1..Len(attempts) :
    IF attempts[i].kind = "response" THEN attempts[i].status \in StatusForcelist
    ELSE FALSE

\* C6 as stated: against an upstream that keeps answering 429/500/502/503/504
\* at most 3 HTTP attempts are sent, the first included.
C6_AtMostThreeAttempts ==
  AllForcelist => Len(attempts) <= 3

\* C6 as amended: at most 4 attempts are sent (the first and the 3 retries of
\* Retry(total=3)), after which the call ends with None.
C6_AtMostFourAttempts ==
  AllForcelist =>
    /\ Len(attempts) <= RetryTotal + 1
    /\ fpc = "returned" => /\ Len(attempts) = RetryTotal + 1
                           /\ foutcome = [raised |-> FALSE, value |-> NoData]

\* C6 witness: a call ended after four attempts answered with forcelist statuses
C6_Witness ==
  /\ fpc = "returned"
  /\ AllForcelist
  /\ Len(attempts) = RetryTotal + 1

\* C7 (as stated): after any sequence of save_to_csv calls on one target,
\* whether the target was absent, empty or written earlier, the file is one
\* header line followed by the rows it held and the rows of all batches in
\* call order.
C7_OneHeaderWhateverTheStart ==
  saves >= 1 =>
    csv_file.text = HeaderLine \o WriteRows(PriorRows(csv_start) \o written)

\* C7 (amended): after any sequence of save_to_csv calls the file is the rows
\* it held and the rows of all batches in call order, preceded by one header
\* line when the target was absent or written earlier by save_to_csv, and by
\* no header line when the target existed and was empty.
C7_HeaderUnlessStartedEmpty ==
  saves >= 1 =>
    csv_file.text = (IF csv_start = "empty" THEN <<>> ELSE HeaderLine)
                      \o WriteRows(PriorRows(csv_start) \o written)

\* C7 witness: two calls with a batch each on a target that was absent
C7_Witness ==
  /\ csv_start = "absent"
  /\ saves = 2
  /\ Len(written) > MaxBatch

\* C8: when two save_to_csv calls on one target interleave their existence
\* checks, opens and writes, the file ends as one header line followed by
\* the rows it held and every row of both batches, one batch after the other.
C8_ConcurrentSavesKeepOneHeader ==
  (\A p \in Writers : cpc[p] = "closed") =>
    \E first \in Writers, second \in Writers :
      /\ first # second
      /\ csv_file.text = HeaderLine \o WriteRows(PriorRows(csv_start)
                                                   \o cbatch[first] \o cbatch[second])

\* C9: load_from_csv after one save_to_csv to a fresh file returns one row
\* per record, in batch order, with the record's pool_name, facility_type
\* and occupancy_text; load_from_csv of a missing file returns the empty list.
C9_CsvRoundTrip ==
  (loaded.called /\ csv_start = "absent") =>
    /\ loaded.saves = 0 => loaded.rows = <<>>
    /\ loaded.saves = 1 =>
         /\ Len(loaded.rows) = Len(loaded.of)
         /\ \A k \in 1..Len(loaded.of) :
              /\ loaded.rows[k][PoolNameColumn] = loaded.of[k].pool_name
              /\ loaded.rows[k][FacilityTypeColumn] = loaded.of[k].facility_type
              /\ loaded.rows[k][OccupancyTextColumn] = loaded.of[k].occupancy_level

RECURSIVE ArrayLengths(_, _)
\* the summed lengths of the arrays of the document under the plural keys
ArrayLengths(doc, types) ==
  IF types = {} THEN 0
  ELSE LET t == CHOOSE t \in types : TRUE
       IN  Len(doc[t \o <<"s">>]) + ArrayLengths(doc, types \ {t})

C12_ExitZeroIffSomeData ==
  mpc = "exited" => (exit_code = 0 <=> Cardinality(DataFetches) >= 1)

\* C13: when the with block of the scrape command has ended, by return or
\* by exception, the session is closed; when it ended by exception, the
\* exception reached main's handler, which returns 1.
C13_SessionClosedOnEveryExit ==
  /\ mpc \in {"after_with", "exited"} => session = "closed"
  /\ (mpc \in {"after_with", "exited"} /\ pc = "raised") => (mpc = "exited" /\ exit_code = 1)

\* C13 witness: the body raised and the session is closed
C13_Witness ==
  /\ mpc = "exited"
  /\ pc = "raised"
  /\ session = "closed"
  /\ exit_code = 1

\* C14: add_facility completes without error; afterwards the registry maps
\* the facility's id to the facility, with last_seen refreshed and
\* first_seen set when the id was new, and the file holds the registry.
C14_AddFacilityRegisters ==
  reg_last.op = "add_facility" =>
    /\ ~reg_last.raised
    /\ HasId(facilities, reg_last.arg.org_id)
    /\ LET entry == get_facility(facilities, reg_last.arg.org_id).value
       IN  /\ entry.name = reg_last.arg.name
           /\ entry.last_seen = now
           /\ ~HasId(reg_last.before, reg_last.arg.org_id) => entry.first_seen = now
    /\ config_file = SavedFile(facilities)

\* C15: mark_inactive of an id of the registry leaves that entry inactive
\* and every other entry and field as it was, and the file holds the
\* registry; on an entry that is inactive already the registry stays as it
\* is; on an id that is not in the registry nothing changes, the file
\* included; the call never raises.
C15_MarkInactiveOnlyDeactivates ==
  reg_last.op = "mark_inactive" =>
    LET before == reg_last.before
        org_id == reg_last.arg
    IN  /\ ~reg_last.raised
        /\ Len(facilities) = Len(before)
        /\ \A i \in 1..Len(before) :
             facilities[i] = IF before[i].org_id = org_id
                             THEN [before[i] EXCEPT !.active = FALSE]
                             ELSE before[i]
        /\ (\E i \in 1..Len(before) : before[i].org_id = org_id)
             => config_file.exists /\ LoadItems(config_file.entries, <<>>) = facilities
        /\ (\A i \in 1..Len(before) : before[i].org_id = org_id => ~before[i].active)
             => facilities = before
        /\ (\A i \in 1..Len(before) : before[i].org_id # org_id)
             => config_file = reg_last.file_before

\* C15 witness: mark_inactive on an entry that an earlier call made
\* inactive, next to an entry that is active
C15_Witness ==
  /\ reg_last.op = "mark_inactive"
  /\ Len(facilities) = 2
  /\ \E i \in 1..2 :
       /\ reg_last.before[i].org_id = reg_last.arg
       /\ ~reg_last.before[i].active
       /\ facilities[3 - i].active
  /\ config_file.exists

\* C16: no step of the registry (construction from the file or the
\* defaults, add_facility, mark_inactive, a capacity update of a scrape
\* cycle, check_for_changes) removes an entry: every id of the registry is
\* an id of the registry after the step, and get_facility finds it.
C16_NoEntryRemoved ==
  [][\A i \in 1..Len(facilities) :
       /\ \E j \in 1..Len(facilities') : facilities'[j].org_id = facilities[i].org_id
       /\ get_facility(facilities', facilities[i].org_id).value # NoFacility]_vars

\* C16 witness: a registry constructed again from the file after an entry
\* was marked inactive: the entry is there, inactive
C16_Witness ==
  /\ reg_last.op = "load"
  /\ reg_last.before # <<>>
  /\ \E i \in 1..Len(facilities) :
       /\ ~facilities[i].active
       /\ \E j \in 1..Len(reg_last.before) :
            /\ reg_last.before[j].org_id = facilities[i].org_id
            /\ ~reg_last.before[j].active
  /\ \E i \in 1..Len(facilities) : facilities[i].active

\* C17: no two entries of the registry have the same id, and no two active
\* entries have the same name and type.
C17_UniqueIdsAndActiveNames ==
  \A i, j \in 1..Len(facilities) :
    i # j =>
      /\ facilities[i].org_id # facilities[j].org_id
      /\ (facilities[i].active /\ facilities[j].active)
           => <<facilities[i].name, facilities[i].facility_type>>
                # <<facilities[j].name, facilities[j].facility_type>>

\* C18: get_facility and get_org_id return the mapped value for a mapped
\* key and none for any other, without raising; require_id returns the id
\* of a mapped (name, type) and raises UnknownFacilityError with the name
\* and the type for any other.
C18_LookupsReturnNoneRequireRaises ==
  /\ reg_last.op = "get_facility" =>
       /\ ~reg_last.result.raised
       /\ \A i \in 1..Len(facilities) :
            facilities[i].org_id = reg_last.arg => reg_last.result.value = facilities[i]
       /\ (\A i \in 1..Len(facilities) : facilities[i].org_id # reg_last.arg)
            => reg_last.result.value = NoFacility
  /\ reg_last.op = "get_org_id" =>
       /\ ~reg_last.result.raised
       /\ reg_last.result.value
            = IF reg_last.arg \in DOMAIN FACILITIES THEN FACILITIES[reg_last.arg] ELSE None
  /\ reg_last.op = "require_id" =>
       IF reg_last.arg \in DOMAIN FACILITIES
       THEN /\ ~reg_last.result.raised
            /\ reg_last.result.value = FACILITIES[reg_last.arg]
       ELSE /\ reg_last.result.raised
            /\ reg_last.result.error = "UnknownFacilityError"
            /\ reg_last.result.name = reg_last.arg[1]
            /\ reg_last.result.facility_type = reg_last.arg[2]

\* C18 witness: require_id of a name that is not mapped has raised
C18_Witness ==
  /\ reg_last.op = "require_id"
  /\ reg_last.arg = <<<<"N", "o", "n", "e">>, POOL>>
  /\ reg_last.result.raised

\* C21: the registry constructed from the defaults holds, for every entry
\* of FACILITIES, an active entry with the entry's name and type, and at
\* least as many active entries as FACILITIES has entries.
C21_DefaultsCoverFacilities ==
  reg_last.op = "load_defaults" =>
    /\ \A e \in AllFacilities :
         \E p \in 1..Len(facilities) :
           /\ facilities[p].active
           /\ facilities[p].name = e.name
           /\ facilities[p].facility_type = e.facility_type
    /\ Cardinality({p \in 1..Len(facilities) : facilities[p].active})
         >= Cardinality(AllFacilities)

CapacityFetches(p) ==
  {j \in 1..Len(fetched) :
     /\ active_facilities[j] = p
     /\ fetched[j][2] # NoData
     /\ fetched[j][2].maxPersonCount > 0}

\* C23: when a cycle has returned, a facility whose fetch returned a
\* capacity m > 0 has max_capacity m; a facility whose fetch returned no
\* data or a capacity of 0, or that was not fetched, has the max_capacity it
\* had before the cycle; and the registry file was written during the cycle
\* exactly when some facility's max_capacity differed from the capacity
\* above zero returned for it.
C23_CapacityFollowsData ==
  (pc = "done" /\ reg_last.op = "scrape_pool_data") =>
    /\ \A p \in 1..Len(facilities) :
         /\ \A j \in CapacityFetches(p) :
              facilities[p].max_capacity = fetched[j][2].maxPersonCount
         /\ CapacityFetches(p) = {}
              => facilities[p].max_capacity = reg_last.before[p].max_capacity
    /\ config_file # reg_last.file_before
         <=> \E p \in 1..Len(facilities) : \E j \in CapacityFetches(p) :
               reg_last.before[p].max_capacity # fetched[j][2].maxPersonCount

\* C23 witness: a returned cycle in which one facility took over a new
\* capacity and another, with a known capacity, returned a capacity of 0
C23_Witness ==
  /\ pc = "done"
  /\ reg_last.op = "scrape_pool_data"
  /\ config_file.exists
  /\ \E p, q \in 1..Len(facilities) :
       /\ CapacityFetches(p) # {}
       /\ facilities[p].max_capacity # reg_last.before[p].max_capacity
       /\ \E j \in 1..Len(fetched) :
            /\ active_facilities[j] = q
            /\ fetched[j][2] # NoData
            /\ fetched[j][2].maxPersonCount = 0
       /\ facilities[q].max_capacity = 1

PoolPercents(batch) ==
  {occupancy_percent_of(batch[k].occupancy_level) :
     k \in {i \in 1..Len(batch) : batch[i].facility_type = POOL}}

\* the names of the pool records of a batch with the occupancy_percent
PoolsWithPercent(batch, percent) ==
  {batch[k].pool_name :
     k \in {i \in 1..Len(batch) : /\ batch[i].facility_type = POOL
                                  /\ occupancy_percent_of(batch[i].occupancy_level) = percent}}

RECURSIVE SumOfPoolPercents(_)
SumOfPoolPercents(batch) ==
  IF batch = <<>> THEN 0
  ELSE (IF Head(batch).facility_type = POOL
        THEN occupancy_percent_of(Head(batch).occupancy_level) ELSE 0)
         + SumOfPoolPercents(Tail(batch))

\* C24: in the document written for a batch with a pool record,
\* busiest_pool names a pool record with the largest occupancy_percent of
\* the pool records, quietest_pool one with the smallest, also when the
\* smallest is 0, and avg_pool_occupancy is the mean of the pool records;
\* for a batch without a pool record the summary has no field.
C24_SummaryOverPools ==
  json_last.called =>
    LET batch == json_last.batch
        summary == json_log[json_last.call].after[json_last.filename][SummaryKey]
        percents == PoolPercents(batch)
    IN  IF percents = {} THEN summary = EmptyDict
        ELSE /\ summary[BusiestPoolKey]
                  \in PoolsWithPercent(batch, CHOOSE x \in percents : \A y \in percents : y <= x)
             /\ summary[QuietestPoolKey]
                  \in PoolsWithPercent(batch, CHOOSE x \in percents : \A y \in percents : x <= y)
             /\ summary[AvgPoolOccupancyKey].sum = SumOfPoolPercents(batch)
             /\ summary[AvgPoolOccupancyKey].count
                  = Cardinality({i \in 1..Len(batch) : batch[i].facility_type = POOL})

\* C27: in the document written for a batch, total_facilities is the
\* number of records of the batch and every '<type>_count' the number of
\* its records of the type, whatever metadata the caller passed.
C27_CountsWhateverTheMetadata ==
  json_last.called =>
    LET batch == json_last.batch
        meta == json_log[json_last.call].after[json_last.filename][ScrapeMetadataKey]
    IN  /\ meta[TotalFacilitiesKey] = Len(batch)
        /\ \A t \in {batch[i].facility_type : i \in 1..Len(batch)} :
             meta[t \o <<"_", "c", "o", "u", "n", "t">>]
               = Cardinality({i \in 1..Len(batch) : batch[i].facility_type = t})

\* C30: the CSV file written by convert_json_files_to_csv holds, for every
\* readable snapshot and every record of the batch the snapshot was saved
\* from, whatever the record's type, one row, the row save_to_csv writes
\* for the record, and no other row.
C30_ConvertWritesEveryRecord ==
  csv_file.exists =>
    LET readable == {f \in DOMAIN json_files : Readable(json_files[f])}
        RowsOf(rec) == {k \in 1..Len(written) : to_csv_row(written[k]) = to_csv_row(rec)}
        InBatch(rec) == {i \in 1..Len(pool_data) : pool_data[i] = rec}
    IN  /\ csv_file.text = HeaderLine \o WriteRows(written)
        /\ Len(written) = Cardinality(readable) * Len(pool_data)
        /\ \A i \in 1..Len(pool_data) :
             Cardinality(RowsOf(pool_data[i]))
               = Cardinality(readable) * Cardinality(InBatch(pool_data[i]))

\* C28: when the scrape command has ended after a cycle that yielded an
\* empty batch, it has written nothing, whatever the format: the CSV file
\* is what it was before the command (absent, or with its earlier rows) and
\* the data directory holds no snapshot.
C28_EmptyBatchWritesNothing ==
  (mpc = "exited" /\ pc = "done" /\ pool_data = <<>>) =>
    /\ csv_file = StartFile(csv_start)
    /\ saves = 0
    /\ written = <<>>
    /\ json_files = EmptyDict
    /\ json_log = <<>>
    /\ ~json_last.called

C28_Witness ==
  /\ mpc = "exited"
  /\ pc = "done"
  /\ pool_data = <<>>
  /\ format = "both"
  /\ csv_start = "written"
  /\ Len(fetched) = 3
  /\ exit_code = 1

\* C25: an entry that check_for_changes has made inactive is one for whose
\* id the provider returned no data during the check; an entry for whose id
\* the provider returns data stays active.
C25_DeactivatedOnlyWithoutData ==
  (reg_last.op = "check_for_changes" /\ ~reg_last.raised) =>
    \A i \in 1..Len(reg_last.before) :
      LET org_id == reg_last.before[i].org_id
      IN  (/\ reg_last.before[i].active
           /\ \E j \in 1..Len(facilities) :
                facilities[j].org_id = org_id /\ ~facilities[j].active)
            => /\ org_id \in DOMAIN reg_last.unasked
               /\ reg_last.unasked[org_id] = NoData

\* the labels f"{percent}% frei" of the percentages a fetch can lead to whose
\* record is_open and has an occupancy_percent that is not None
OpenLabelsWithPercent ==
  {label \in {FreiLabel(percent) : percent \in (0 - 100 * MaxCount)..100} :
     /\ is_open([occupancy_level |-> label])
     /\ occupancy_percent_of(label) # None}

\* C29: every record of the batch of a cycle is open, has an
\* occupancy_percent that is not None, and has the type of its facility in
\* the registry, which is not 'unknown' for a pool or a sauna, whatever
\* counts the fetch returned.
C29_ApiRecordsOpenTypedWithPercent ==
  LET fetches == DataFetchSeq
  IN  \A k \in 1..Len(pool_data) :
        LET facility == CHOOSE f \in {facilities[p] : p \in 1..Len(facilities)} :
                          f.org_id = fetches[k][1]
        IN  /\ pool_data[k].occupancy_level \in OpenLabelsWithPercent
            /\ pool_data[k].facility_type = facility.facility_type
            /\ facility.facility_type \in {POOL, SAUNA}
                 => pool_data[k].facility_type # UNKNOWN

\* C29 witness: a batch with a record for a capacity of 0 and a record for
\* more persons than the capacity
C29_Witness ==
  /\ Len(pool_data) >= 2
  /\ \E j, k \in 1..Len(pool_data) :
       /\ DataFetchSeq[j][2].maxPersonCount = 0
       /\ DataFetchSeq[k][2].personCount > DataFetchSeq[k][2].maxPersonCount
       /\ DataFetchSeq[k][2].maxPersonCount > 0

\* C19: a save_to_json call that fails leaves the data directory as it was:
\* the target file is absent if it was absent and holds its previous
\* complete document if it existed, never a partial document.
C19_FailedJsonSaveChangesNothing ==
  \A k \in 1..Len(json_log) :
    json_log[k].failed => json_log[k].after = json_log[k].before

\* C20: every save_to_json call with the default file name writes a file
\* that did not exist before the call, and leaves every snapshot written by
\* an earlier call as it was, also when two calls read the same clock value.
C20_EverySaveItsOwnSnapshot ==
  \A k \in 1..Len(json_log) :
    ~json_log[k].failed =>
      /\ json_log[k].filename \notin DOMAIN json_log[k].before
      /\ \A name \in DOMAIN json_log[k].before :
           json_log[k].after[name] = json_log[k].before[name]
====
